---------------------------- MODULE Spec2Model ----------------------------
(***************************************************************************)
(* Model of the wlclient package of libwldevices-go: the Display           *)
(* connection (id allocator, SendRequest, Dispatch, Roundtrip, listener    *)
(* table) and the Registry (handleGlobal, handleGlobalRemove, Bind,        *)
(* FindGlobal), together with a compositor on the other end of the socket. *)
(*                                                                         *)
(* A uint32 is kept as its 32-bit pattern read as a two's complement       *)
(* integer (0 .. 2^31-1 as themselves, 2^31 .. 2^32-1 as -2^31 .. -1), so  *)
(* every value of the program fits the integers of the model checker and   *)
(* the wrap of a uint32 is the wrap of the pattern.                        *)
(***************************************************************************)
EXTENDS Integers, Sequences, FiniteSets, TLC

(***************************************************************************)
(* Bounds of the model.                                                    *)
(***************************************************************************)
\* user calls (Bind, Roundtrip, Dispatch, AddListener, ...) after Connect
MaxOps == 2
\* events the compositor sends of its own accord (announce, remove, delete_id)
MaxEvents == 2
\* single allocateID calls of each caller in the allocator specification
MaxAllocs == 4
\* delete_id events in the allocator specification
MaxFrees == 1
\* length of one uninterrupted run of allocateID calls (2^31 - 4)
RunLen == 2147483644
\* SendRequest calls of each concurrent sender
MaxSends == 2
\* Roundtrip calls of each concurrent caller
MaxTrips == 2
\* length of the longest string or byte array of a short argument list
MaxArgLen == 5
\* length of the string or byte array of a long argument list
LongLen == 65528
\* virtual pointers (keyboards, constraints) a manager creates
MaxPointers == 2
\* calls of each thread that shares the tables with the Dispatch loop
MaxShared == 1
\* the small mantissas of the float64 values given to NewFixed
MaxMantissa == 20
\* the binary places of the float64 values given to NewFixed
MaxExponent == 10
\* the ASCII runes given to charToKey
MaxRune == 127
\* globals the compositor of a Client has at a time
MaxClientNames == 2
\* global and global_remove events a Client handles
MaxClientEvents == 3
\* characters of a text given to TypeString
MaxText == 2
\* events and calls of one pointer constraint
MaxConstraintEvents == 5

MaxInt32 == 2147483647
MinInt32 == (-2147483647) - 1

(***************************************************************************)
(* uint32 arithmetic on 32-bit patterns.                                   *)
(***************************************************************************)
\* x + 1 modulo 2^32
U32Inc(x) == IF x = MaxInt32 THEN MinInt32 ELSE x + 1

\* x - 1 modulo 2^32
U32Dec(x) == IF x = MinInt32 THEN MaxInt32 ELSE x - 1

\* x + k modulo 2^32, for 0 <= k < 2^31
U32Add(x, k) ==
    IF x >= 0
    THEN IF k <= MaxInt32 - x THEN x + k ELSE (x + MinInt32) + (k + MinInt32)
    ELSE x + k

\* unsigned x < y
U32Less(x, y) ==
    IF (x < 0) = (y < 0) THEN x < y ELSE y < 0

\* unsigned x + k overflows 2^32, for 0 <= k < 2^31
U32AddWraps(x, k) == x < 0 /\ x + k >= 0

Bytes == 0..255

\* binary.LittleEndian.PutUint32 / binary.Write of a 32-bit value
PutUint32(v) ==
    LET low == IF v >= 0 THEN v ELSE (v + MaxInt32) + 1
    IN  << low % 256,
           (low \div 256) % 256,
           (low \div 65536) % 256,
           (low \div 16777216) + (IF v < 0 THEN 128 ELSE 0) >>

\* binary.LittleEndian.Uint32 of the first four bytes of b
Uint32(b) ==
    LET low == b[1] + 256 * b[2] + 65536 * b[3] + 16777216 * (b[4] % 128)
    IN  IF b[4] >= 128 THEN (low - MaxInt32) - 1 ELSE low

\* Go's slice expression data[lo:hi]
Slice(data, lo, hi) == SubSeq(data, lo + 1, hi)

\* Go's slice expression data[lo:]
SliceFrom(data, lo) == SubSeq(data, lo + 1, Len(data))

Zeros(n) == [i \in 1..n |-> 0]

\* padding := (4 - (n % 4)) % 4
Padding(n) == (4 - (n % 4)) % 4


(***************************************************************************)
(* Wire codec.  An argument of SendRequest is a record [type, v]; the      *)
(* types are those of the type switch of marshalArg, and "other" stands    *)
(* for every Go type the switch does not name.                             *)
(***************************************************************************)
ArgU32(v) == [type |-> "uint32", v |-> v]
ArgStr(s) == [type |-> "string", v |-> s]
ArgBytes(b) == [type |-> "bytes", v |-> b]
ArgOther == [type |-> "other", v |-> 0]

\* mutant of MarshalString: the padding is computed from len(v), not strlen
MarshalStringPadLen(v) ==
    LET strlen == Len(v) + 1
    IN  PutUint32(strlen) \o v \o <<0>> \o Zeros(Padding(Len(v)))

\* the string case of marshalArg
MarshalString(v) ==
    LET strlen == Len(v) + 1
    IN  PutUint32(strlen) \o v \o <<0>> \o Zeros(Padding(strlen))

\* mutant of MarshalBytes: the length word counts the padding too
MarshalBytesPadded(v) ==
    LET arrlen == Len(v)
    IN  PutUint32(arrlen + Padding(arrlen)) \o v \o Zeros(Padding(arrlen))

\* the []byte case of marshalArg
MarshalBytes(v) ==
    LET arrlen == Len(v)
    IN  PutUint32(arrlen) \o v \o Zeros(Padding(arrlen))

\* mutant of marshalArg: a value of an unsupported type is skipped
marshalArgSkip(arg) ==
    CASE arg.type \in {"uint32", "int32", "fixed", "object", "nil"} ->
            [err |-> FALSE, bytes |-> PutUint32(arg.v)]
      [] arg.type = "string" -> [err |-> FALSE, bytes |-> MarshalString(arg.v)]
      [] arg.type = "bytes" -> [err |-> FALSE, bytes |-> MarshalBytes(arg.v)]
      [] OTHER -> [err |-> FALSE, bytes |-> << >>]

\* marshalArg: the bytes appended to the buffer and whether an error is returned
marshalArg(arg) ==
    CASE arg.type \in {"uint32", "int32", "fixed"} ->
            [err |-> FALSE, bytes |-> PutUint32(arg.v)]
      [] arg.type = "string" -> [err |-> FALSE, bytes |-> MarshalString(arg.v)]
      [] arg.type = "bytes" -> [err |-> FALSE, bytes |-> MarshalBytes(arg.v)]
      [] arg.type \in {"object", "nil"} ->
            [err |-> FALSE, bytes |-> PutUint32(arg.v)]
      [] OTHER -> [err |-> TRUE, bytes |-> <<>>]

\* the loop of SendRequest over its arguments: stops at the first error
RECURSIVE MarshalArgs(_)
MarshalArgs(args) ==
    IF args = <<>> THEN [err |-> FALSE, bytes |-> <<>>]
    ELSE LET m == marshalArg(Head(args))
         IN  IF m.err THEN m
             ELSE LET rest == MarshalArgs(Tail(args))
                  IN  [err |-> rest.err, bytes |-> m.bytes \o rest.bytes]

\* (size & 0xffff) | uint32(opcode)<<16, as a 32-bit pattern
PackSizeOpcode(size, opcode) ==
    IF opcode < 32768
    THEN opcode * 65536 + (size % 65536)
    ELSE (opcode - 65536) * 65536 + (size % 65536)

\* the frame SendRequest builds: header back-filled over the placeholder,
\* then the marshalled arguments
SendRequestFrame(objectID, opcode, args) ==
    LET m == MarshalArgs(args)
        size == 8 + Len(m.bytes)
    IN  [err |-> m.err,
         data |-> PutUint32(objectID) \o PutUint32(PackSizeOpcode(size, opcode))
                    \o m.bytes]

\* the header fields Dispatch extracts from the first 8 bytes
HeaderObjectID(header) == Uint32(Slice(header, 0, 4))
HeaderSize(header) == Uint32(Slice(header, 4, 8)) % 65536
HeaderOpcode(header) == (Uint32(Slice(header, 4, 8)) \div 65536) % 65536

\* the number of bytes Dispatch reads for the frame that starts the stream:
\* the header, and the body only when size > 8
FrameBytes(header) == IF HeaderSize(header) > 8 THEN HeaderSize(header) ELSE 8

\* the buffer Registry.Bind hands to SendRequest as one []byte argument
BindBuffer(name, iface, version, newID) ==
    PutUint32(name)
      \o PutUint32(Len(iface) + 1) \o iface \o <<0>>
      \o Zeros(Padding(Len(iface) + 1))
      \o PutUint32(version)
      \o PutUint32(newID)

\* the frame Registry.Bind writes: SendRequest(r.id, 0, buf.Bytes())
BindFrame(regID, name, iface, version, newID) ==
    SendRequestFrame(regID, 0, <<ArgBytes(BindBuffer(name, iface, version, newID))>>)

\* mutant of DecodeGlobal: the second length check is off by one
DecodeGlobalOffByOne(data) ==
    IF Len(data) < 12 THEN [ok |-> FALSE]
    ELSE LET name == Uint32(Slice(data, 0, 4))
             ifaceLen == Uint32(Slice(data, 4, 8))
         IN  IF Len(data) <= 12 + ifaceLen THEN [ok |-> FALSE]
             ELSE [ok |-> TRUE,
                   Name |-> name,
                   Interface |-> Slice(data, 8, 8 + ifaceLen - 1),
                   Version |-> Uint32(SliceFrom(data, 8 + ifaceLen))]

\* Registry.handleGlobal's decoding of an event body: what is stored, or
\* nothing ("ok" false) when the body is shorter than the checks allow
DecodeGlobal(data) ==
    IF Len(data) < 12 THEN [ok |-> FALSE]
    ELSE LET name == Uint32(Slice(data, 0, 4))
             ifaceLen == Uint32(Slice(data, 4, 8))
         IN  IF Len(data) < 12 + ifaceLen THEN [ok |-> FALSE]
             ELSE [ok |-> TRUE,
                   Name |-> name,
                   Interface |-> Slice(data, 8, 8 + ifaceLen - 1),
                   Version |-> Uint32(SliceFrom(data, 8 + ifaceLen))]

\* mutant of DecodeError: object id and code are read from each other's place
DecodeErrorSwapped(data) ==
    IF Len(data) < 12 THEN [ok |-> FALSE]
    ELSE LET msgLen == Uint32(Slice(data, 8, 12))
         IN  [ok |-> TRUE,
              obj |-> Uint32(Slice(data, 4, 8)),
              code |-> Uint32(Slice(data, 0, 4)),
              message |-> IF msgLen > 0 /\ Len(data) >= 12 + msgLen
                          THEN Slice(data, 12, 12 + msgLen - 1)
                          ELSE <<>>]

\* handleDisplayEvent's decoding of an error event body
DecodeError(data) ==
    IF Len(data) < 12 THEN [ok |-> FALSE]
    ELSE LET msgLen == Uint32(Slice(data, 8, 12))
         IN  [ok |-> TRUE,
              obj |-> Uint32(Slice(data, 0, 4)),
              code |-> Uint32(Slice(data, 4, 8)),
              message |-> IF msgLen > 0 /\ Len(data) >= 12 + msgLen
                          THEN Slice(data, 12, 12 + msgLen - 1)
                          ELSE <<>>]

(***************************************************************************)
(* The compositor's side of the wire: the events it writes, encoded as the *)
(* protocol lays them out.                                                 *)
(***************************************************************************)
\* a frame: the target id, then (opcode << 16) | length, then the body
EventFrame(objectID, opcode, body) ==
    PutUint32(objectID) \o PutUint32(opcode * 65536 + 8 + Len(body)) \o body

\* a string argument: the length with the NUL, the bytes, the NUL, zero
\* padding to a 4-byte boundary
WireString(str) ==
    PutUint32(Len(str) + 1) \o str \o <<0>> \o Zeros(Padding(Len(str) + 1))

\* wl_registry.global(name: uint, interface: string, version: uint)
GlobalBody(name, iface, version) ==
    PutUint32(name) \o WireString(iface) \o PutUint32(version)

\* wl_registry.global_remove(name: uint)
GlobalRemoveBody(name) == PutUint32(name)

\* wl_display.error(object_id: object, code: uint, message: string)
ErrorBody(obj, code, message) ==
    PutUint32(obj) \o PutUint32(code) \o WireString(message)

\* wl_display.delete_id(id: uint)
DeleteIdBody(id) == PutUint32(id)

\* wl_callback.done(callback_data: uint)
DoneBody(serial) == PutUint32(serial)


(***************************************************************************)
(* Inputs.                                                                 *)
(***************************************************************************)
\* global names the compositor announces
Names == {5, 6}
\* interface strings, as bytes: "x" and "xyz" (length+1 = 2 and 4)
IfaceX == <<120>>
IfaceXYZ == <<120, 121, 122>>
Ifaces == {IfaceX, IfaceXYZ}
Versions == {1, 3}
\* the globals the compositor has to announce, and users bind
Catalog ==
    { [name |-> 5, iface |-> IfaceX, version |-> 1],
      [name |-> 6, iface |-> IfaceX, version |-> 3],
      [name |-> 6, iface |-> IfaceXYZ, version |-> 3] }
\* error events: (object, code, message), message "oops"
ErrObjects == {2, 42}
ErrCodes == {3}
MsgOops == <<111, 111, 112, 115>>
ErrMessages == {MsgOops}
\* user listeners: tags of the callbacks handed to AddListener
Tags == {1, 2}
ListenOpcodes == {0, 1}
\* callers of the allocator, senders of SendRequest
Callers == {1, 2}

VARIABLES
    pc,         \* where the client's thread is: "connect", "getRegistry",
                \* "roundtrip", "ready", "failed", "blocked"
    nextID,     \* Display.nextID
    objects,    \* Display.objects: the ids stored in the map
    listeners,  \* Display.listeners: objectID -> opcode -> sequence of handlers
    regID,      \* Registry.id (0 before the registry is made)
    globals,    \* Registry.globals: name -> Global
    handlers,   \* Registry.handlers: interface -> GlobalHandler
    lastError,  \* Display.lastError, lastErrorCode, lastErrorObj
    doneCh,     \* the done channel of each Roundtrip: callback id -> values queued
    rt,         \* the Roundtrip in progress: [cb, caller, mark]
    tx,         \* bytes written to the socket, not yet read by the compositor
    rx,         \* bytes written by the compositor, not yet read by Dispatch
    rxMeta,     \* the events behind the frames of rx, in order
    ret,        \* the last call that returned, with its results
    calls,      \* the callbacks invoked by the last Dispatch, in order
    lastFrame,  \* the last frame written by SendRequest
    ops,        \* user calls made so far
    peer,       \* the compositor: [registry, live, dead, events]
    hist,       \* history of the connection, see Init
    registered, \* the AddListener calls so far: [objectID, opcode, handler]
    alloc,      \* history of allocateID, see Init
    freed,      \* ids named by the delete_id events handled so far
    got,        \* each concurrent caller of allocateID: [id it got last, calls]
    sendMu,     \* Display.sendMu: its holder, or 0
    snd,        \* each concurrent SendRequest: [pc, frame, left, n]
    order,      \* the frames of the concurrent SendRequest calls, in lock order
    conn,       \* the socket: "open", "closed" (Close was called) or "eof"
                \* (the compositor has closed its end)
    thr,        \* each concurrent caller of Roundtrip: [pc, cb, n, by, err]
    sock,       \* Connect's argument and environment, and the path it dials
    call,       \* a call of a function of the library apart from a
                \* connection: its arguments and, once made, its results
    tab,        \* the threads that share the tables of a Display, step by
                \* step: [t, mu, recvMu, crashed], see NoTab
    dev         \* the objects of the device packages (managers, virtual
                \* pointers, pointer constraints), see NoDev

vars == << pc, nextID, objects, listeners, regID, globals, handlers, lastError,
           doneCh, rt, tx, rx, rxMeta, ret, calls, lastFrame, ops, peer, hist,
           registered, alloc, freed, got, sendMu, snd, order, conn, thr, sock,
           call, tab, dev >>

EmptyMap == [x \in {} |-> 0]

\* no call is being made
NoCall == [op |-> "none"]

\* the thread that calls Dispatch in a loop (the "by" field of a caller of
\* Roundtrip names it)
LoopThread == 3

\* no thread is in a call that touches the tables; no lock is held.  Of a
\* thread: the step it is at, its call and arguments, the handlers it has
\* read (old), the body of the frame it dispatches, its calls so far
IdleThread ==
    [pc |-> "idle", op |-> "none", objectID |-> 0, opcode |-> 0, iface |-> << >>,
     tag |-> 0, old |-> << >>, body |-> << >>, n |-> 0,
     ev |-> 0,            \* the number of the event whose frame it has read
     nested |-> "none",   \* what the listener it runs has called: Dispatch, Roundtrip
     cb |-> 0,            \* the callback id of that Roundtrip
     outer |-> << >>]     \* the frame whose listener made the call
NoTab ==
    [t |-> [c \in Callers \cup {LoopThread} |-> IdleThread],
     mu |-> [w |-> 0, r |-> {}],    \* Registry.mu: its writer, its readers
     recvMu |-> 0,                  \* Display.recvMu: its holder
     crashed |-> FALSE]             \* the runtime has stopped the program

MapPut(m, k, v) == (k :> v) @@ m

MapDelete(m, k) == [x \in DOMAIN m \ {k} |-> m[x]]

NilErr == [kind |-> "nil", obj |-> 0, code |-> 0, message |-> << >>]

NoRt == [cb |-> 0, caller |-> "none", mark |-> 0, from |-> 0]

(***************************************************************************)
(* The allocator.                                                          *)
(***************************************************************************)
\* atomic.AddUint32(&d.nextID, 1): the new value of the counter
AddUint32(n) == U32Inc(n)

\* mutant of allocateID: the new value of the counter is returned
allocateIDNew == U32Inc(nextID)

\* allocateID's result: atomic.AddUint32(&d.nextID, 1) - 1
allocateID == U32Dec(AddUint32(nextID))

\* whether an earlier allocateID call returned an id of first .. last
Issued(first, last) ==
    \E r \in alloc.runs : ~U32Less(last, r[1]) /\ ~U32Less(r[2], first)

\* the history of the allocator after k calls in a row that return
\* first, ..., last (k >= 1, no wrap inside the run)
AllocHistory(first, last, k) ==
    [n |-> U32Add(alloc.n, k),
     over |-> alloc.over \/ U32AddWraps(alloc.n, k),
     first |-> IF alloc.n = 0 /\ ~alloc.over THEN first ELSE alloc.first,
     last |-> last,
     rising |-> alloc.rising
                  /\ ((alloc.n = 0 /\ ~alloc.over) \/ U32Less(alloc.last, first)),
     runs |-> alloc.runs \cup {<<first, last>>},
     again |-> alloc.again \/ Issued(first, last),
     freedAgain |-> alloc.freedAgain
                      \/ \E f \in freed : ~U32Less(f, first) /\ ~U32Less(last, f)]

\* one allocateID call: the counter moves, the history records the result
AllocOne ==
    /\ nextID' = AddUint32(nextID)
    /\ alloc' = AllocHistory(allocateID, allocateID, 1)

(***************************************************************************)
(* Listeners and Dispatch.  A handler is [kind, arg]: the registry's two   *)
(* listeners, the one-shot listener of a Roundtrip (arg: its callback id)  *)
(* and the callbacks users hand to AddListener (arg: a tag).               *)
(***************************************************************************)
HGlobal == [kind |-> "handleGlobal", arg |-> 0]
HGlobalRemove == [kind |-> "handleGlobalRemove", arg |-> 0]
HSync(cb) == [kind |-> "sync", arg |-> cb]
HUser(tag) == [kind |-> "user", arg |-> tag]

\* mutant of AddListener: the handler is put in front of the list
AddListenerInFront(ls, objectID, opcode, handler) ==
    LET opcodeMap == IF objectID \in DOMAIN ls THEN ls[objectID] ELSE EmptyMap
        old == IF opcode \in DOMAIN opcodeMap THEN opcodeMap[opcode] ELSE << >>
    IN  MapPut(ls, objectID, MapPut(opcodeMap, opcode, <<handler>> \o old))

\* AddListener: the handler is appended to the list of (objectID, opcode)
AddListener(ls, objectID, opcode, handler) ==
    LET opcodeMap == IF objectID \in DOMAIN ls THEN ls[objectID] ELSE EmptyMap
        old == IF opcode \in DOMAIN opcodeMap THEN opcodeMap[opcode] ELSE << >>
    IN  MapPut(ls, objectID, MapPut(opcodeMap, opcode, Append(old, handler)))

\* the record of an AddListener call
Registration(objectID, opcode, handler) ==
    [objectID |-> objectID, opcode |-> opcode, handler |-> handler]

\* mutant of ListenersOf: only the ids allocated so far have listeners
ListenersOfAllocated(ls, objectID, opcode) ==
    IF U32Less(objectID, nextID) /\ objectID \in DOMAIN ls
       /\ opcode \in DOMAIN ls[objectID]
    THEN ls[objectID][opcode]
    ELSE << >>

\* the handlers Dispatch finds for (objectID, opcode), in the order it calls them
ListenersOf(ls, objectID, opcode) ==
    IF objectID \in DOMAIN ls /\ opcode \in DOMAIN ls[objectID]
    THEN ls[objectID][opcode]
    ELSE << >>

\* mutant of handleGlobal: the global is stored, the handler is not called
handleGlobalStoreOnly(st, data) ==
    LET g == DecodeGlobal(data)
    IN  IF ~g.ok THEN st
        ELSE [st EXCEPT !.globals =
                MapPut(@, g.Name, [Name |-> g.Name, Interface |-> g.Interface,
                                   Version |-> g.Version])]

\* Registry.handleGlobal on the state st = [globals, objects, doneCh, calls, blocked]
handleGlobal(st, data) ==
    LET g == DecodeGlobal(data)
    IN  IF ~g.ok THEN st
        ELSE LET stored == [st EXCEPT !.globals =
                              MapPut(@, g.Name, [Name |-> g.Name,
                                                 Interface |-> g.Interface,
                                                 Version |-> g.Version])]
             IN  IF g.Interface \in DOMAIN handlers
                 THEN [stored EXCEPT !.calls =
                          Append(@, [h |-> [kind |-> "GlobalHandler",
                                            arg |-> handlers[g.Interface]],
                                     body |-> <<g.Name, g.Version>>])]
                 ELSE stored

\* mutant of handleGlobalRemove: the global is not deleted
handleGlobalRemoveKept(st, data) == st

\* Registry.handleGlobalRemove
handleGlobalRemove(st, data) ==
    IF Len(data) < 4 THEN st
    ELSE [st EXCEPT !.globals = MapDelete(@, Uint32(Slice(data, 0, 4)))]

\* the listener Roundtrip registers: objects.Delete(callbackID); done <- nil.
\* The channel holds one value; a send on a full channel never returns.
SyncListener(st, cb) ==
    LET deleted == [st EXCEPT !.objects = @ \ {cb}]
    IN  IF deleted.doneCh[cb] < 1
        THEN [deleted EXCEPT !.doneCh[cb] = @ + 1]
        ELSE [deleted EXCEPT !.blocked = TRUE]

CallHandler(st, h, body) ==
    LET logged == [st EXCEPT !.calls = Append(@, [h |-> h, body |-> body])]
    IN  CASE h.kind = "handleGlobal" -> handleGlobal(logged, body)
          [] h.kind = "handleGlobalRemove" -> handleGlobalRemove(logged, body)
          [] h.kind = "sync" -> SyncListener(logged, h.arg)
          [] OTHER -> logged

\* for _, handler := range handlers { handler(body) }
RECURSIVE RunListeners(_, _, _)
RunListeners(hs, body, st) ==
    IF hs = << >> \/ st.blocked THEN st
    ELSE RunListeners(Tail(hs), body, CallHandler(st, Head(hs), body))

\* mutant of handleDisplayEvent: the error is recorded and nil is returned
handleDisplayEventSilent(opcode, data) ==
    LET same == [err |-> NilErr, lastError |-> lastError, objects |-> objects,
                 freed |-> freed]
    IN  CASE opcode = 0 ->
               LET e == DecodeError(data)
               IN  IF ~e.ok THEN same
                   ELSE [same EXCEPT
                           !.lastError = [set |-> TRUE, obj |-> e.obj, code |-> e.code,
                                          message |-> e.message]]
          [] opcode = 1 ->
               IF Len(data) < 4 THEN same
               ELSE [same EXCEPT !.objects = @ \ {Uint32(Slice(data, 0, 4))},
                                 !.freed = @ \cup {Uint32(Slice(data, 0, 4))}]
          [] OTHER -> same

\* mutant of handleDisplayEvent: lastError is written before the length of
\* the body is checked, from the zero values when the body is too short
handleDisplayEventEager(opcode, data) ==
    LET same == [err |-> NilErr, lastError |-> lastError, objects |-> objects,
                 freed |-> freed]
    IN  CASE opcode = 0 ->
               LET e == DecodeError(data)
               IN  IF ~e.ok
                   THEN [same EXCEPT
                           !.err = [NilErr EXCEPT !.kind = "invalid error event"],
                           !.lastError = [set |-> TRUE, obj |-> 0, code |-> 0,
                                          message |-> << >>]]
                   ELSE [same EXCEPT
                           !.err = [kind |-> "protocol", obj |-> e.obj,
                                    code |-> e.code, message |-> e.message],
                           !.lastError = [set |-> TRUE, obj |-> e.obj, code |-> e.code,
                                          message |-> e.message]]
          [] opcode = 1 ->
               IF Len(data) < 4
               THEN [same EXCEPT !.err = [NilErr EXCEPT !.kind = "invalid delete_id event"]]
               ELSE [same EXCEPT !.objects = @ \ {Uint32(Slice(data, 0, 4))},
                                 !.freed = @ \cup {Uint32(Slice(data, 0, 4))}]
          [] OTHER -> same

\* handleDisplayEvent: the error returned and the fields it writes
handleDisplayEvent(opcode, data) ==
    LET same == [err |-> NilErr, lastError |-> lastError, objects |-> objects,
                 freed |-> freed]
    IN  CASE opcode = 0 ->
               LET e == DecodeError(data)
               IN  IF ~e.ok
                   THEN [same EXCEPT !.err = [NilErr EXCEPT !.kind = "invalid error event"]]
                   ELSE [same EXCEPT
                           !.err = [kind |-> "protocol", obj |-> e.obj,
                                    code |-> e.code, message |-> e.message],
                           !.lastError = [set |-> TRUE, obj |-> e.obj, code |-> e.code,
                                          message |-> e.message]]
          [] opcode = 1 ->
               IF Len(data) < 4
               THEN [same EXCEPT !.err = [NilErr EXCEPT !.kind = "invalid delete_id event"]]
               ELSE [same EXCEPT !.objects = @ \ {Uint32(Slice(data, 0, 4))},
                                 !.freed = @ \cup {Uint32(Slice(data, 0, 4))}]
          [] OTHER -> same

\* a whole frame is there to read: Dispatch's two io.ReadFull calls return
FrameReady == Len(rx) >= 8 /\ Len(rx) >= FrameBytes(Slice(rx, 0, 8))

\* mutant of ReadReturns: a read never waits, it fails when there is no data
ReadReturnsAtOnce == TRUE

\* mutant of ReadReturns: Close does not end a read that waits
ReadReturnsOnData == FrameReady \/ conn = "eof"

\* io.ReadFull returns: with the bytes asked for, or with an error because
\* the socket was closed or the stream has ended
ReadReturns == FrameReady \/ conn # "open"

\* mutant of ReadFailed: the error of the read is dropped
ReadFailedNil(kind, n) ==
    [err |-> NilErr, failed |-> TRUE, read |-> n,
     objectID |-> 0, opcode |-> 0, body |-> << >>, lastError |-> lastError,
     freed |-> freed, globals |-> globals, objects |-> objects,
     doneCh |-> doneCh, calls |-> << >>, blocked |-> FALSE]

\* what Dispatch returns when a read fails, after it has taken n bytes
ReadFailed(kind, n) ==
    [err |-> [NilErr EXCEPT !.kind = kind], failed |-> TRUE, read |-> n,
     objectID |-> 0, opcode |-> 0, body |-> << >>, lastError |-> lastError,
     freed |-> freed, globals |-> globals, objects |-> objects,
     doneCh |-> doneCh, calls |-> << >>, blocked |-> FALSE]

\* Dispatch on a frame that is whole in rx: what it returns and what it writes
DispatchFrame ==
    LET header == Slice(rx, 0, 8)
        objectID == HeaderObjectID(header)
        size == HeaderSize(header)
        opcode == HeaderOpcode(header)
        body == IF size > 8 THEN Slice(rx, 8, size) ELSE << >>
        st0 == [globals |-> globals, objects |-> objects, doneCh |-> doneCh,
                calls |-> << >>, blocked |-> FALSE]
        base == [err |-> NilErr, failed |-> FALSE,
                 read |-> FrameBytes(header), objectID |-> objectID,
                 opcode |-> opcode, body |-> body, lastError |-> lastError,
                 freed |-> freed, globals |-> globals, objects |-> objects,
                 doneCh |-> doneCh, calls |-> << >>, blocked |-> FALSE]
    IN  IF objectID = 1
        THEN LET d == handleDisplayEvent(opcode, body)
             IN  [base EXCEPT !.err = d.err, !.lastError = d.lastError,
                              !.objects = d.objects, !.freed = d.freed]
        ELSE LET st == RunListeners(ListenersOf(listeners, objectID, opcode), body, st0)
             IN  [base EXCEPT !.globals = st.globals, !.objects = st.objects,
                              !.doneCh = st.doneCh, !.calls = st.calls,
                              !.blocked = st.blocked]

\* Dispatch: the read of the header fails on a closed socket and on a stream
\* that ends before 8 bytes, the read of the body on a stream that ends
\* before size bytes
Dispatch ==
    IF conn = "closed" THEN ReadFailed("failed to read header", 0)
    ELSE IF Len(rx) < 8 THEN ReadFailed("failed to read header", Len(rx))
    ELSE IF Len(rx) < FrameBytes(Slice(rx, 0, 8))
    THEN ReadFailed("failed to read body", Len(rx))
    ELSE DispatchFrame

\* the event behind the frame a Dispatch has read
NoEvent == [type |-> "none", target |-> 0, opcode |-> 0]
EventOf(d) == IF d.failed THEN NoEvent ELSE Head(rxMeta)

\* the history after the frame behind event m has been dispatched
Dispatched(m) ==
    [hist EXCEPT
       !.evRead = @ + 1,
       !.last = [target |-> m.target, opcode |-> m.opcode, registered |-> registered,
                 handlers |-> handlers, event |-> m],
       !.freedAt = IF m.type = "delete_id" /\ m.id \notin DOMAIN @
                   THEN MapPut(@, m.id, Len(registered)) ELSE @,
       !.delivered = IF m.type = "done" THEN @ \cup {m.id} ELSE @,
       !.shown = CASE m.type = "global" ->
                        MapPut(@, m.name, [Interface |-> m.iface, Version |-> m.version])
                   [] m.type = "global_remove" -> MapDelete(@, m.name)
                   [] OTHER -> @]

\* what every Dispatch call does to the state, given its result d
DispatchWrites(d) ==
    /\ rx' = SliceFrom(rx, d.read)
    /\ rxMeta' = IF d.failed THEN rxMeta ELSE Tail(rxMeta)
    /\ globals' = d.globals
    /\ objects' = d.objects
    /\ lastError' = d.lastError
    /\ freed' = d.freed
    /\ calls' = d.calls
    /\ hist' = IF d.failed
               THEN [hist EXCEPT !.last = [target |-> 0, opcode |-> 0,
                                           registered |-> registered,
                                           handlers |-> handlers,
                                           event |-> NoEvent]]
               ELSE Dispatched(Head(rxMeta))


(***************************************************************************)
(* The socket path of Connect.  A string is the sequence of its characters.*)
(***************************************************************************)
\* the name Connect falls back to
DefaultSocket == << "w", "a", "y", "l", "a", "n", "d", "-", "0" >>

\* filepath.IsAbs on a Unix path
IsAbs(path) == path # << >> /\ Head(path) = "/"

\* dir without the slashes that end it (the root stays)
RECURSIVE TrimSlashes(_)
TrimSlashes(dir) ==
    IF Len(dir) > 1 /\ dir[Len(dir)] = "/"
    THEN TrimSlashes(SubSeq(dir, 1, Len(dir) - 1))
    ELSE dir

\* filepath.Join(dir, name) for a non-empty dir and a name with no ".", ".."
\* or doubled slash in it: one separator between the two
Join(dir, name) ==
    IF TrimSlashes(dir) = << "/" >> THEN << "/" >> \o name
    ELSE TrimSlashes(dir) \o << "/" >> \o name

\* mutant of SocketName: the environment is looked at before the argument
SocketNameEnvFirst(socketPath, display) ==
    IF display # << >> THEN display
    ELSE IF socketPath # << >> THEN socketPath
    ELSE DefaultSocket

\* the name Connect resolves: the argument, else WAYLAND_DISPLAY, else
\* "wayland-0"
SocketName(socketPath, display) ==
    IF socketPath # << >> THEN socketPath
    ELSE IF display # << >> THEN display
    ELSE DefaultSocket

\* Connect up to the dial: the error it returns before dialing, or the path
\* it dials; "consulted" tells whether XDG_RUNTIME_DIR was read
ResolveSocket(socketPath, display, runDir) ==
    LET name == SocketName(socketPath, display)
    IN  IF ~IsAbs(name)
        THEN IF runDir = << >>
             THEN [err |-> "XDG_RUNTIME_DIR not set", path |-> << >>,
                   consulted |-> TRUE]
             ELSE [err |-> "nil", path |-> Join(runDir, name), consulted |-> TRUE]
        ELSE [err |-> "nil", path |-> name, consulted |-> FALSE]

\* the arguments of Connect, and the two environment variables
SocketArgs == { << >>, << "w", "1" >>, << "/", "s" >> }
DisplayEnvs == { << >>, << "w", "2" >>, << "/", "d" >> }
RunDirs == { << >>, << "/", "r" >>, << "/", "r", "/" >>, << "/" >> }

(***************************************************************************)
(* The device packages.  Their managers and objects are stubs that keep a  *)
(* flag each (connected, active); they do not use a Display.               *)
(***************************************************************************)
Pointers == 1..MaxPointers

ManagerKinds == {"virtual_pointer", "virtual_keyboard", "pointer_constraints"}

\* the nil error, and the error values of the three packages
Nil == [kind |-> "nil", code |-> 0, message |-> ""]
VirtualPointerError(code, message) ==
    [kind |-> "VirtualPointerError", code |-> code, message |-> message]
VirtualKeyboardError(code, message) ==
    [kind |-> "VirtualKeyboardError", code |-> code, message |-> message]
PointerConstraintsError(code, message) ==
    [kind |-> "PointerConstraintsError", code |-> code, message |-> message]

\* no manager has been made and no object created.  "destroyed" is history:
\* a Destroy of the manager or object has returned nil
NoDev ==
    [mgr |-> [k \in ManagerKinds |->
                [made |-> FALSE, connected |-> FALSE, destroyed |-> FALSE,
                 objects |-> 0]],
     ptr |-> [i \in Pointers |->
                [made |-> FALSE, active |-> FALSE, destroyed |-> FALSE]],
     click |-> [pc |-> "idle", p |-> 0, button |-> 0, issued |-> << >>]]

(***************************************************************************)
(* Initial state: the Display as Connect has just made it (nextID 2, no    *)
(* object stored yet), the socket connected and empty.                     *)
(***************************************************************************)
InitDisplay ==
    /\ dev = NoDev
    /\ nextID = 2
    /\ objects = {}
    /\ listeners = EmptyMap
    /\ regID = 0
    /\ globals = EmptyMap
    /\ handlers = EmptyMap
    /\ lastError = [set |-> FALSE, obj |-> 0, code |-> 0, message |-> << >>]
    /\ doneCh = EmptyMap
    /\ rt = NoRt
    /\ tx = << >>
    /\ rx = << >>
    /\ rxMeta = << >>
    /\ ret = [op |-> "none"]
    /\ calls = << >>
    /\ lastFrame = << >>
    /\ ops = 0
    /\ peer = [registry |-> 0,      \* the id the client gave the registry
               live |-> EmptyMap,   \* the globals announced and not removed
               dead |-> {},         \* ids destroyed, delete_id not yet sent
               events |-> 0]        \* events sent of its own accord
    /\ hist = [sent |-> 0,          \* frames written by SendRequest
               processed |-> 0,     \* of these, processed by the compositor
               evSent |-> 0,        \* events written by the compositor
               evRead |-> 0,        \* of these, read by Dispatch
               errs |-> {},         \* the error events among them, by number
               ackAt |-> EmptyMap,  \* callback id -> number of its done event
               acked |-> EmptyMap,  \* callback id -> the compositor's globals then
               delivered |-> {},    \* callback ids whose done event was dispatched
               shown |-> EmptyMap,  \* the globals by the events dispatched so far
               freedAt |-> EmptyMap, \* id named by a delete_id event dispatched
                                    \* -> the number of AddListener calls before
               cut |-> 0,           \* bytes of the frame the compositor cut short
               added |-> << >>,     \* the AddHandler calls so far: [iface, tag]
               last |-> [target |-> 0, opcode |-> 0, registered |-> << >>,
                         handlers |-> EmptyMap,
                         event |-> [type |-> "none", target |-> 0, opcode |-> 0]]]
                                    \* the frame dispatched last (target 0: the
                                    \* read failed), the AddListener calls and
                                    \* the registry's handlers before it
    /\ registered = << >>
    /\ alloc = [n |-> 0,            \* calls of allocateID so far, modulo 2^32
                over |-> FALSE,      \* there were 2^32 calls or more
                first |-> 0,         \* what the first call returned
                last |-> 0,          \* what the last call returned
                rising |-> TRUE,     \* each call returned more than the one before
                runs |-> {},         \* the ids returned, as intervals
                again |-> FALSE,     \* some id was returned twice
                freedAgain |-> FALSE] \* some id was returned after its delete_id
    /\ freed = {}
    /\ got = [c \in Callers |-> [id |-> 0, calls |-> 0]]
    /\ sendMu = 0
    /\ snd = [c \in Callers |-> [pc |-> "idle", frame |-> << >>, left |-> << >>,
                                  n |-> 0, args |-> << >>, err |-> FALSE,
                                  wrote |-> 0, afterErr |-> FALSE]]
    /\ order = << >>
    /\ conn = "open"
    /\ thr = [c \in Callers |-> [pc |-> "idle", cb |-> 0, n |-> 0, by |-> 0,
                                  err |-> NilErr]]

\* Connect("") with WAYLAND_DISPLAY unset and XDG_RUNTIME_DIR=/r has dialed
\* /r/wayland-0
Init ==
    /\ pc = "connect"
    /\ sock = [arg |-> << >>, display |-> << >>, runDir |-> << "/", "r" >>,
               path |-> Join(<< "/", "r" >>, DefaultSocket), consulted |-> TRUE,
               dials |-> 1]
    /\ call = NoCall
    /\ tab = NoTab
    /\ InitDisplay

allocVars == << alloc, got >>
envVars == << conn, thr, sock, call, tab, dev >>
sendVars == << sendMu, snd, order >>
registryVars == << regID, globals, handlers >>

\* SendRequest by the one thread of the client: the lock is free, the whole
\* frame is written
Written(frame) ==
    /\ conn = "open"
    /\ tx' = tx \o frame.data
    /\ lastFrame' = frame.data
    /\ hist' = [hist EXCEPT !.sent = @ + 1]

(***************************************************************************)
(* Connect.                                                                *)
(***************************************************************************)
\* d.objects.Store(1, d); d.registry = &Registry{id: d.allocateID(), ...};
\* d.objects.Store(d.registry.id, d.registry)
ConnectRegistry ==
    /\ pc = "connect"
    /\ regID' = allocateID
    /\ AllocOne
    /\ objects' = objects \cup {1, allocateID}
    /\ pc' = "getRegistry"
    /\ UNCHANGED << listeners, globals, handlers, lastError, doneCh, rt, tx, rx,
                    rxMeta, ret, calls, lastFrame, ops, peer, hist, registered,
                    freed, got, sendVars, envVars >>

\* d.getRegistry(): the registry's two listeners, then get_registry (opcode 1)
getRegistry ==
    /\ pc = "getRegistry"
    /\ listeners' = AddListener(AddListener(listeners, regID, 0, HGlobal),
                                regID, 1, HGlobalRemove)
    /\ registered' = registered \o << Registration(regID, 0, HGlobal),
                                      Registration(regID, 1, HGlobalRemove) >>
    /\ Written(SendRequestFrame(1, 1, <<ArgU32(regID)>>))
    /\ pc' = "initialRoundtrip"
    /\ UNCHANGED << nextID, objects, registryVars, lastError, doneCh, rt, rx,
                    rxMeta, ret, calls, ops, peer, freed, allocVars, sendVars, envVars >>

(***************************************************************************)
(* Roundtrip.                                                              *)
(***************************************************************************)
\* callbackID := d.allocateID(); done := make(chan error, 1); AddListener;
\* SendRequest(1, 0, callbackID)
RoundtripBegin(caller) ==
    /\ rt' = [cb |-> allocateID, caller |-> caller, mark |-> hist.sent,
              from |-> hist.evRead]
    /\ AllocOne
    /\ doneCh' = MapPut(doneCh, allocateID, 0)
    /\ listeners' = AddListener(listeners, allocateID, 0, HSync(allocateID))
    /\ registered' = Append(registered, Registration(allocateID, 0, HSync(allocateID)))
    /\ Written(SendRequestFrame(1, 0, <<ArgU32(allocateID)>>))
    /\ pc' = "roundtrip"
    /\ UNCHANGED << objects, registryVars, lastError, rx, rxMeta, ret, calls,
                    peer, freed, got, sendVars, envVars >>

\* Connect's initial Roundtrip
ConnectRoundtrip ==
    /\ pc = "initialRoundtrip"
    /\ RoundtripBegin("Connect")
    /\ UNCHANGED ops

\* a Roundtrip called by the user
Roundtrip ==
    /\ pc = "ready"
    /\ ops < MaxOps
    /\ ops' = ops + 1
    /\ RoundtripBegin("User")

\* mutant of SelectDone: the select never takes the done case
SelectDoneNever(ch, cb) == FALSE

\* mutant of SelectDone: the select takes the done case whatever the channel holds
SelectDoneAlways(ch, cb) == TRUE

\* select { case err := <-done: ...; default: }: whether a value is received
SelectDone(ch, cb) == ch[cb] > 0

\* what the caller of the Roundtrip that ends gets: Connect closes the
\* connection and fails when its Roundtrip fails
RoundtripReturns(err, event) ==
    /\ ret' = [op |-> IF rt.caller = "Connect" THEN "Connect" ELSE "Roundtrip",
               err |-> err, cb |-> rt.cb, mark |-> rt.mark, from |-> rt.from,
               to |-> hist.evRead + 1, event |-> event, globals |-> globals',
               conn |-> conn]
    /\ pc' = IF rt.caller = "Connect" /\ err.kind # "nil" THEN "failed" ELSE "ready"
    /\ rt' = NoRt

\* one turn of the loop of Roundtrip: Dispatch, then the select
RoundtripDispatch ==
    /\ pc = "roundtrip"
    /\ ReadReturns
    /\ \E d \in {Dispatch} :
           /\ DispatchWrites(d)
           /\ IF d.blocked
              THEN /\ pc' = "blocked"
                   /\ doneCh' = d.doneCh
                   /\ UNCHANGED << rt, ret >>
              ELSE IF d.err.kind # "nil"
              THEN /\ doneCh' = d.doneCh
                   /\ RoundtripReturns(d.err, EventOf(d))
              ELSE IF SelectDone(d.doneCh, rt.cb)
              THEN /\ doneCh' = [d.doneCh EXCEPT ![rt.cb] = @ - 1]
                   /\ RoundtripReturns(NilErr, EventOf(d))
              ELSE /\ doneCh' = d.doneCh
                   /\ UNCHANGED << pc, rt, ret >>
    /\ UNCHANGED << nextID, listeners, regID, handlers, tx, lastFrame, ops, peer,
                    registered, allocVars, sendVars, envVars >>


(***************************************************************************)
(* The calls a user makes once Connect has returned the Display.           *)
(***************************************************************************)
\* Display.Close called by another thread while a Roundtrip of the user is
\* in progress: d.conn.Close()
CloseCall ==
    /\ pc = "roundtrip"
    /\ rt.caller = "User"
    /\ conn = "open"
    /\ conn' = "closed"
    /\ UNCHANGED << pc, nextID, objects, listeners, registryVars, lastError, doneCh,
                    rt, tx, rx, rxMeta, ret, calls, lastFrame, ops, peer, hist,
                    registered, freed, allocVars, sendVars, thr, sock,
                    call, tab, dev >>

\* Display.Dispatch called by the user
DispatchCall ==
    /\ pc = "ready"
    /\ ReadReturns
    /\ \E d \in {Dispatch} :
           /\ DispatchWrites(d)
           /\ doneCh' = d.doneCh
           /\ IF d.blocked
              THEN pc' = "blocked" /\ UNCHANGED ret
              ELSE /\ pc' = pc
                   /\ ret' = [op |-> "Dispatch", err |-> d.err,
                              event |-> EventOf(d), objectID |-> d.objectID,
                              opcode |-> d.opcode, body |-> d.body,
                              failed |-> d.failed,
                              short |-> ~FrameReady,
                              before |-> << listeners, objects, globals >>,
                              after |-> << listeners, objects', globals' >>]
    /\ UNCHANGED << nextID, listeners, regID, handlers, rt, tx, lastFrame, ops,
                    peer, registered, allocVars, sendVars, envVars >>

\* Registry.Bind(name, iface, version)
Bind ==
    /\ pc = "ready"
    /\ ops < MaxOps
    /\ ops' = ops + 1
    /\ \E g \in Catalog :
          /\ Written(BindFrame(regID, g.name, g.iface, g.version, allocateID))
          /\ ret' = [op |-> "Bind", err |-> NilErr, id |-> allocateID,
                     name |-> g.name, iface |-> g.iface, version |-> g.version,
                     frame |-> lastFrame', evBefore |-> hist.evRead,
                     evAfter |-> hist'.evRead]
    /\ AllocOne
    /\ UNCHANGED << pc, objects, listeners, registryVars, lastError, doneCh, rt,
                    rx, rxMeta, calls, peer, registered, freed, got, sendVars, envVars >>

\* the objects users listen on: the registry, and the id of the first
\* allocation after Connect
ListenIDs == {2, 4}

\* Display.AddListener(objectID, opcode, handler) called by the user
AddListenerCall ==
    /\ pc = "ready"
    /\ ops < MaxOps
    /\ ops' = ops + 1
    /\ \E objectID \in ListenIDs, opcode \in ListenOpcodes, tag \in Tags :
          /\ listeners' = AddListener(listeners, objectID, opcode, HUser(tag))
          /\ registered' = Append(registered, Registration(objectID, opcode, HUser(tag)))
          /\ ret' = [op |-> "AddListener", objectID |-> objectID,
                     opcode |-> opcode, tag |-> tag]
    /\ UNCHANGED << pc, nextID, objects, registryVars, lastError, doneCh, rt, tx,
                    rx, rxMeta, calls, lastFrame, peer, hist, freed, allocVars,
                    sendVars, envVars >>

\* AddHandler that keeps the handler an interface already has
SetHandlerOnce(hs, iface, handler) ==
    IF iface \in DOMAIN hs THEN hs ELSE MapPut(hs, iface, handler)

\* r.handlers[iface] = handler
SetHandler(hs, iface, handler) == MapPut(hs, iface, handler)

\* Registry.AddHandler(iface, handler)
AddHandler ==
    /\ pc = "ready"
    /\ ops < MaxOps
    /\ ops' = ops + 1
    /\ \E iface \in Ifaces, tag \in Tags :
          /\ handlers' = SetHandler(handlers, iface, tag)
          /\ ret' = [op |-> "AddHandler", iface |-> iface, tag |-> tag]
          /\ hist' = [hist EXCEPT !.added = Append(@, [iface |-> iface,
                                                       tag |-> tag])]
    /\ UNCHANGED << pc, nextID, objects, listeners, regID, globals, lastError,
                    doneCh, rt, tx, rx, rxMeta, calls, lastFrame, peer,
                    registered, freed, allocVars, sendVars, envVars >>

\* Registry.FindGlobal(iface): the map is ranged over in no fixed order, the
\* first global of the interface is returned
FindGlobal ==
    /\ pc = "ready"
    /\ ops < MaxOps
    /\ ops' = ops + 1
    /\ \E iface \in Ifaces :
          \/ \E name \in DOMAIN globals :
                /\ globals[name].Interface = iface
                /\ ret' = [op |-> "FindGlobal", iface |-> iface, found |-> TRUE,
                           global |-> globals[name], shown |-> hist.shown]
          \/ /\ \A name \in DOMAIN globals : globals[name].Interface # iface
             /\ ret' = [op |-> "FindGlobal", iface |-> iface, found |-> FALSE,
                        global |-> [Name |-> 0, Interface |-> << >>, Version |-> 0],
                        shown |-> hist.shown]
    /\ UNCHANGED << pc, nextID, objects, listeners, registryVars, lastError,
                    doneCh, rt, tx, rx, rxMeta, calls, lastFrame, peer, hist,
                    registered, freed, allocVars, sendVars, envVars >>

(***************************************************************************)
(* The compositor.  It reads the requests in the order they were written   *)
(* and answers each as the protocol says; it announces and removes globals *)
(* once the registry exists.                                               *)
(***************************************************************************)
RequestReady == Len(tx) >= 8 /\ Len(tx) >= Uint32(Slice(tx, 4, 8)) % 65536

RequestObject == Uint32(Slice(tx, 0, 4))
RequestOpcode == (Uint32(Slice(tx, 4, 8)) \div 65536) % 65536
RequestSize == Uint32(Slice(tx, 4, 8)) % 65536
RequestBody == Slice(tx, 8, RequestSize)

\* the request at the head of tx has been read and handled
Processed == tx' = SliceFrom(tx, RequestSize)

\* the compositor writes the frame of an event
Emit(target, opcode, body, event) ==
    /\ conn = "open"
    /\ rx' = rx \o EventFrame(target, opcode, body)
    /\ rxMeta' = Append(rxMeta, event @@ [target |-> target, opcode |-> opcode])

peerFrame == << pc, nextID, objects, listeners, registryVars, lastError, doneCh,
                rt, ret, calls, lastFrame, ops, registered, freed, allocVars,
                sendVars, envVars >>

\* wl_display.sync(callback): done is sent on the new callback, which is
\* destroyed at once
PeerSync ==
    /\ RequestReady
    /\ RequestObject = 1 /\ RequestOpcode = 0
    /\ Processed
    /\ LET cb == Uint32(Slice(RequestBody, 0, 4))
       IN  /\ Emit(cb, 0, DoneBody(hist.evSent), [type |-> "done", id |-> cb])
           /\ peer' = [peer EXCEPT !.dead = @ \cup {cb}]
           /\ hist' = [hist EXCEPT !.processed = @ + 1,
                                   !.evSent = @ + 1,
                                   !.ackAt = MapPut(@, cb, hist.evSent + 1),
                                   !.acked = MapPut(@, cb, peer.live)]
    /\ UNCHANGED peerFrame

\* wl_display.get_registry(registry)
PeerGetRegistry ==
    /\ RequestReady
    /\ RequestObject = 1 /\ RequestOpcode = 1
    /\ Processed
    /\ peer' = [peer EXCEPT !.registry = Uint32(Slice(RequestBody, 0, 4))]
    /\ hist' = [hist EXCEPT !.processed = @ + 1]
    /\ UNCHANGED << rx, rxMeta >>
    /\ UNCHANGED peerFrame

\* wl_registry.bind: accepted
PeerBindAccept ==
    /\ RequestReady
    /\ RequestObject = peer.registry /\ RequestOpcode = 0
    /\ Processed
    /\ hist' = [hist EXCEPT !.processed = @ + 1]
    /\ UNCHANGED << rx, rxMeta, peer >>
    /\ UNCHANGED peerFrame

\* wl_registry.bind: rejected with an error event
PeerBindReject ==
    /\ RequestReady
    /\ RequestObject = peer.registry /\ RequestOpcode = 0
    /\ Processed
    /\ \E obj \in ErrObjects, code \in ErrCodes, message \in ErrMessages :
          Emit(1, 0, ErrorBody(obj, code, message),
               [type |-> "error", obj |-> obj, code |-> code, message |-> message])
    /\ hist' = [hist EXCEPT !.processed = @ + 1,
                            !.evSent = @ + 1,
                            !.errs = @ \cup {hist.evSent + 1}]
    /\ UNCHANGED peer
    /\ UNCHANGED peerFrame

\* wl_registry.global
PeerAnnounce ==
    /\ peer.registry # 0
    /\ peer.events < MaxEvents
    /\ \E g \in Catalog :
          /\ Emit(peer.registry, 0, GlobalBody(g.name, g.iface, g.version),
                  [type |-> "global", name |-> g.name, iface |-> g.iface,
                   version |-> g.version])
          /\ peer' = [peer EXCEPT !.events = @ + 1,
                                  !.live = MapPut(@, g.name, [Interface |-> g.iface,
                                                              Version |-> g.version])]
    /\ hist' = [hist EXCEPT !.evSent = @ + 1]
    /\ UNCHANGED tx
    /\ UNCHANGED peerFrame

\* wl_registry.global_remove
PeerRemove ==
    /\ peer.registry # 0
    /\ peer.events < MaxEvents
    /\ \E name \in DOMAIN peer.live :
          /\ Emit(peer.registry, 1, GlobalRemoveBody(name),
                  [type |-> "global_remove", name |-> name])
          /\ peer' = [peer EXCEPT !.events = @ + 1, !.live = MapDelete(@, name)]
    /\ hist' = [hist EXCEPT !.evSent = @ + 1]
    /\ UNCHANGED tx
    /\ UNCHANGED peerFrame

\* wl_display.delete_id for an object the compositor has destroyed
PeerDeleteId ==
    /\ peer.events < MaxEvents
    /\ \E id \in peer.dead :
          /\ Emit(1, 1, DeleteIdBody(id), [type |-> "delete_id", id |-> id])
          /\ peer' = [peer EXCEPT !.events = @ + 1, !.dead = @ \ {id}]
    /\ hist' = [hist EXCEPT !.evSent = @ + 1]
    /\ UNCHANGED tx
    /\ UNCHANGED peerFrame

\* the objects the compositor sends events to, beside the registry: the id
\* the first allocation after Connect would return
EventTargets == {4}
EventBodies == { << >>, << 7, 0, 0, 0 >> }

\* an event of some protocol on an object of EventTargets
PeerEvent ==
    /\ peer.registry # 0
    /\ peer.events < MaxEvents
    /\ \E target \in EventTargets, opcode \in ListenOpcodes, body \in EventBodies :
          Emit(target, opcode, body, [type |-> "event", body |-> body])
    /\ peer' = [peer EXCEPT !.events = @ + 1]
    /\ hist' = [hist EXCEPT !.evSent = @ + 1]
    /\ UNCHANGED tx
    /\ UNCHANGED peerFrame

\* wl_display.delete_id naming an object of EventTargets
PeerDestroy ==
    /\ peer.registry # 0
    /\ peer.events < MaxEvents
    /\ \E id \in EventTargets :
          Emit(1, 1, DeleteIdBody(id), [type |-> "delete_id", id |-> id])
    /\ peer' = [peer EXCEPT !.events = @ + 1]
    /\ hist' = [hist EXCEPT !.evSent = @ + 1]
    /\ UNCHANGED tx
    /\ UNCHANGED peerFrame

\* the length fields of malformed headers: less than the header, and not a
\* multiple of 4
MalformedSizes == {4, 10}

\* a frame whose header carries a length of MalformedSizes, followed by the
\* bytes that length announces beyond the header
PeerMalformed ==
    /\ conn = "open"
    /\ peer.registry # 0
    /\ peer.events < MaxEvents
    /\ \E target \in EventTargets, size \in MalformedSizes :
          /\ rx' = rx \o PutUint32(target) \o PutUint32(size)
                       \o (IF size > 8 THEN [i \in 1..(size - 8) |-> 9] ELSE << >>)
          /\ rxMeta' = Append(rxMeta, [type |-> "malformed", size |-> size,
                                       target |-> target, opcode |-> 0])
    /\ peer' = [peer EXCEPT !.events = @ + 1]
    /\ hist' = [hist EXCEPT !.evSent = @ + 1]
    /\ UNCHANGED tx
    /\ UNCHANGED << pc, nextID, objects, listeners, registryVars, lastError, doneCh,
                    rt, ret, calls, lastFrame, ops, registered, freed, allocVars,
                    sendVars, envVars >>

\* how many bytes of its last frame (12 bytes) the compositor writes before
\* it closes: none, a part of the header, the header and a part of the body
CutLens == {0, 4, 10}

\* the compositor writes the start of an event frame and closes the stream
PeerHangup ==
    /\ conn = "open"
    /\ peer.registry # 0
    /\ peer.events < MaxEvents
    /\ peer' = [peer EXCEPT !.events = @ + 1]
    /\ \E k \in CutLens :
          /\ rx' = rx \o SubSeq(EventFrame(4, 0, << 7, 0, 0, 0 >>), 1, k)
          /\ hist' = [hist EXCEPT !.cut = k]
    /\ conn' = "eof"
    /\ UNCHANGED << pc, nextID, objects, listeners, registryVars, lastError, doneCh,
                    rt, tx, rxMeta, ret, calls, lastFrame, ops, registered,
                    freed, allocVars, sendVars, thr, sock,
                    call, tab, dev >>

(***************************************************************************)
(* The allocator on its own: callers that call allocateID, one call at a   *)
(* time or RunLen calls in a row, and delete_id events.                    *)
(***************************************************************************)
connVars == << pc, objects, listeners, registryVars, lastError, doneCh, rt, tx,
               rx, rxMeta, ret, calls, lastFrame, ops, peer, hist, registered,
               envVars >>

\* caller c calls allocateID; the atomic add is one step
AllocateID ==
    \E c \in Callers :
       /\ got[c].calls < MaxAllocs
       /\ got' = [got EXCEPT ![c] = [id |-> allocateID, calls |-> @.calls + 1]]
       /\ AllocOne
       /\ UNCHANGED << connVars, freed, sendVars >>

\* RunLen calls of allocateID in a row, none of which wraps the counter
AllocateRun ==
    /\ ~U32AddWraps(nextID, RunLen)
    /\ nextID' = U32Add(nextID, RunLen)
    /\ alloc' = AllocHistory(nextID, U32Dec(U32Add(nextID, RunLen)), RunLen)
    /\ UNCHANGED << connVars, freed, got, sendVars >>

\* a delete_id event naming an id the client allocated is handled
DeleteIdEvent ==
    \E id \in {alloc.first, alloc.last} :
       /\ alloc.n # 0 \/ alloc.over
       /\ Cardinality(freed) < MaxFrees
       /\ id \notin freed
       /\ \E d \in {handleDisplayEvent(1, DeleteIdBody(id))} :
             /\ objects' = d.objects
             /\ freed' = d.freed
             /\ lastError' = d.lastError
       /\ UNCHANGED << pc, nextID, listeners, registryVars, doneCh, rt, tx, rx,
                       rxMeta, ret, calls, lastFrame, ops, peer, hist, registered,
                       allocVars, sendVars, envVars >>

NextAlloc ==
    \/ AllocateID
    \/ AllocateRun
    \/ DeleteIdEvent

SpecAlloc == Init /\ [][NextAlloc]_vars

(***************************************************************************)
(* Concurrent SendRequest calls: each takes sendMu, marshals its frame,    *)
(* writes it (the socket may take the bytes in several pieces) and         *)
(* releases sendMu on return.                                              *)
(***************************************************************************)
\* what caller c sends
RequestsOf(c) ==
    { [objectID |-> 10 + c, opcode |-> c, args |-> <<ArgU32(c)>>],
      [objectID |-> 20 + c, opcode |-> 0, args |-> <<ArgStr(IfaceX), ArgU32(c)>>],
      [objectID |-> 30 + c, opcode |-> 1, args |-> <<ArgU32(c), ArgU32(7), ArgOther>>] }

\* mutant of MutexFree: Lock returns at once
MutexAlwaysFree(mu) == TRUE

\* d.sendMu.Lock() returns when nobody holds the mutex
MutexFree(mu) == mu = 0

\* the sizes of the piece of data the socket may take in one write
Pieces(data) == {k \in {1, 8, Len(data)} : k <= Len(data)}

\* d.sendMu.Lock(); the buffer with the frame is built, or the error of
\* marshalArg is on its way back to the caller
SendLock ==
    \E c \in Callers :
       /\ snd[c].pc = "idle"
       /\ snd[c].n < MaxSends
       /\ MutexFree(sendMu)
       /\ sendMu' = c
       /\ \E r \in RequestsOf(c) :
             \E f \in {SendRequestFrame(r.objectID, r.opcode, r.args)} :
                IF f.err
                THEN /\ snd' = [snd EXCEPT ![c] = [pc |-> "written", frame |-> << >>,
                                                   left |-> << >>, n |-> @.n,
                                                   args |-> r.args, err |-> TRUE,
                                                   wrote |-> 0, afterErr |-> @.err]]
                     /\ UNCHANGED order
                ELSE /\ snd' = [snd EXCEPT ![c] = [pc |-> "write", frame |-> f.data,
                                                   left |-> f.data, n |-> @.n,
                                                   args |-> r.args, err |-> FALSE,
                                                   wrote |-> 0, afterErr |-> @.err]]
                     /\ order' = Append(order, f.data)
       /\ UNCHANGED << connVars, nextID, freed, allocVars >>

\* d.conn.Write(data): the socket takes the next piece
SendWrite ==
    \E c \in Callers :
       /\ snd[c].pc = "write"
       /\ \E k \in Pieces(snd[c].left) :
             /\ tx' = tx \o SubSeq(snd[c].left, 1, k)
             /\ snd' = [snd EXCEPT ![c].left = SliceFrom(@, k),
                                   ![c].wrote = @ + k,
                                   ![c].pc = IF k = Len(snd[c].left)
                                             THEN "written" ELSE "write"]
       /\ UNCHANGED << pc, objects, listeners, registryVars, lastError, doneCh, rt,
                       rx, rxMeta, ret, calls, lastFrame, ops, peer, hist,
                       registered, nextID, freed, allocVars, sendMu, order,
                       envVars >>

\* SendRequest returns: the deferred d.sendMu.Unlock()
SendUnlock ==
    \E c \in Callers :
       /\ snd[c].pc = "written"
       /\ sendMu' = 0
       /\ snd' = [snd EXCEPT ![c].pc = "idle", ![c].n = @ + 1]
       /\ UNCHANGED << connVars, nextID, freed, allocVars, order >>

NextSend ==
    \/ SendLock
    \/ SendWrite
    \/ SendUnlock

SpecSend == Init /\ [][NextSend]_vars

(***************************************************************************)
(* SpecBind: Bind and Roundtrip called by several threads once Connect has *)
(* returned.  Each allocates its id, then calls SendRequest: the two are   *)
(* steps of their own, and the lock of SendRequest is taken by whichever   *)
(* thread comes first.                                                     *)
(***************************************************************************)
\* the frames that carry the new id: the binds of the globals of Catalog,
\* and the sync of a Roundtrip
NewIdFrames(id) ==
    { BindFrame(regID, g.name, g.iface, g.version, id) : g \in Catalog }
       \cup { SendRequestFrame(1, 0, <<ArgU32(id)>>) }

\* the new id a frame of NewIdFrames carries: its last word
NewIdOf(data) == Uint32(SliceFrom(data, Len(data) - 4))

\* newID := r.display.allocateID() in Bind, callbackID := d.allocateID() in
\* Roundtrip
BindAllocate ==
    /\ pc = "ready"
    /\ \E c \in Callers :
          /\ snd[c].pc = "idle"
          /\ snd[c].n < MaxSends
          /\ got' = [got EXCEPT ![c] = [id |-> allocateID, calls |-> @.calls + 1]]
          /\ AllocOne
          /\ snd' = [snd EXCEPT ![c].pc = "allocated"]
    /\ UNCHANGED << pc, objects, listeners, registryVars, lastError, doneCh, rt, tx,
                    rx, rxMeta, ret, calls, lastFrame, ops, peer, hist, registered,
                    freed, sendMu, order, envVars >>

\* SendRequest of the frame with the id: d.sendMu.Lock() and the buffer
BindLock ==
    \E c \in Callers :
       /\ snd[c].pc = "allocated"
       /\ MutexFree(sendMu)
       /\ sendMu' = c
       /\ \E f \in NewIdFrames(got[c].id) :
             /\ snd' = [snd EXCEPT ![c] = [pc |-> "write", frame |-> f.data,
                                           left |-> f.data, n |-> @.n,
                                           args |-> << >>, err |-> FALSE,
                                           wrote |-> 0, afterErr |-> @.err]]
             /\ order' = Append(order, f.data)
       /\ UNCHANGED << connVars, nextID, freed, allocVars >>

NextBind ==
    \/ ConnectRegistry
    \/ getRegistry
    \/ ConnectRoundtrip
    \/ RoundtripDispatch
    \/ PeerSync
    \/ PeerGetRegistry
    \/ BindAllocate
    \/ BindLock
    \/ SendWrite
    \/ SendUnlock

SpecBind == Init /\ [][NextBind]_vars

(***************************************************************************)
(* Connect from its call: the socket path, the dial, then the Display.     *)
(***************************************************************************)
InitConnect ==
    /\ pc = "start"
    /\ \E arg \in SocketArgs, display \in DisplayEnvs, runDir \in RunDirs :
          sock = [arg |-> arg, display |-> display, runDir |-> runDir,
                  path |-> << >>, consulted |-> FALSE, dials |-> 0]
    /\ call = NoCall
    /\ tab = NoTab
    /\ InitDisplay

\* what Connect returns when it fails before there is a Display
ConnectFailed(kind) ==
    [op |-> "Connect", err |-> [NilErr EXCEPT !.kind = kind], display |-> FALSE,
     event |-> NoEvent]

\* Connect resolves the path, and returns an error when it cannot
ConnectResolve ==
    /\ pc = "start"
    /\ \E r \in {ResolveSocket(sock.arg, sock.display, sock.runDir)} :
          /\ sock' = [sock EXCEPT !.path = r.path, !.consulted = r.consulted]
          /\ IF r.err # "nil"
             THEN pc' = "failed" /\ ret' = ConnectFailed(r.err)
             ELSE pc' = "dial" /\ UNCHANGED ret
    /\ UNCHANGED << nextID, objects, listeners, registryVars, lastError, doneCh,
                    rt, tx, rx, rxMeta, calls, lastFrame, ops, peer, hist,
                    registered, freed, allocVars, sendVars, conn, thr,
                    call, tab, dev >>

\* net.Dial("unix", socketPath) and conn.File(): either may fail
ConnectDial ==
    /\ pc = "dial"
    /\ sock' = [sock EXCEPT !.dials = @ + 1]
    /\ \/ pc' = "connect" /\ UNCHANGED ret
       \/ pc' = "failed" /\ ret' = ConnectFailed("failed to connect to Wayland")
       \/ pc' = "failed" /\ ret' = ConnectFailed("failed to get socket fd")
    /\ UNCHANGED << nextID, objects, listeners, registryVars, lastError, doneCh,
                    rt, tx, rx, rxMeta, calls, lastFrame, ops, peer, hist,
                    registered, freed, allocVars, sendVars, conn, thr,
                    call, tab, dev >>

NextConnect ==
    \/ ConnectResolve
    \/ ConnectDial
    \/ ConnectRegistry
    \/ getRegistry
    \/ ConnectRoundtrip
    \/ RoundtripDispatch
    \/ PeerSync
    \/ PeerGetRegistry

SpecConnect == InitConnect /\ [][NextConnect]_vars

(***************************************************************************)
(* Roundtrip called by several threads at once, beside a thread that calls *)
(* Dispatch in a loop.  Dispatch is one step (it holds recvMu from its     *)
(* first read to its return); the select of a Roundtrip is the next step   *)
(* of its thread.                                                          *)
(***************************************************************************)
raceFrame == << pc, nextID, listeners, regID, handlers, rt, ret, tx, lastFrame,
               ops, peer, registered, allocVars, sendVars, conn, sock,
                    call, tab, dev >>

\* caller c enters Roundtrip: allocateID, the done channel, AddListener,
\* SendRequest(1, 0, callbackID)
RaceBeginOf(c) ==
    /\ pc = "ready"
    /\ thr[c].pc = "idle"
    /\ thr[c].n < MaxTrips
    /\ thr' = [thr EXCEPT ![c] = [pc |-> "dispatch", cb |-> allocateID, n |-> @.n,
                                  by |-> 0, err |-> NilErr]]
    /\ AllocOne
    /\ doneCh' = MapPut(doneCh, allocateID, 0)
    /\ listeners' = AddListener(listeners, allocateID, 0, HSync(allocateID))
    /\ registered' = Append(registered, Registration(allocateID, 0, HSync(allocateID)))
    /\ Written(SendRequestFrame(1, 0, <<ArgU32(allocateID)>>))
    /\ UNCHANGED << pc, objects, registryVars, lastError, rt, rx, rxMeta, ret,
                    calls, ops, peer, freed, got, sendVars, conn, sock,
                    call, tab, dev >>

RaceBegin == \E c \in Callers : RaceBeginOf(c)

\* the callers after thread t has dispatched the frame of result d: a caller
\* whose done event it was learns nothing, the history notes who read it
Acked(t, d) ==
    [x \in Callers |->
        IF ~d.failed /\ Head(rxMeta).type = "done" /\ Head(rxMeta).id = thr[x].cb
        THEN [thr[x] EXCEPT !.by = t]
        ELSE thr[x]]

\* the Dispatch call in the loop of caller c's Roundtrip
RaceDispatchOf(c) ==
    /\ thr[c].pc = "dispatch"
    /\ ReadReturns
    /\ \E d \in {Dispatch} :
           /\ DispatchWrites(d)
           /\ doneCh' = d.doneCh
           /\ thr' = [Acked(c, d) EXCEPT
                        ![c].pc = IF d.blocked THEN "stuck"
                                  ELSE IF d.err.kind # "nil" THEN "idle"
                                  ELSE "select",
                        ![c].n = IF ~d.blocked /\ d.err.kind # "nil" THEN @ + 1 ELSE @,
                        ![c].err = d.err]
    /\ UNCHANGED raceFrame

RaceDispatch == \E c \in Callers : RaceDispatchOf(c)

\* the select in the loop of caller c's Roundtrip
RaceSelectOf(c) ==
    /\ thr[c].pc = "select"
    /\ IF SelectDone(doneCh, thr[c].cb)
       THEN /\ doneCh' = [doneCh EXCEPT ![thr[c].cb] = @ - 1]
            /\ thr' = [thr EXCEPT ![c].pc = "idle", ![c].n = @ + 1]
       ELSE /\ thr' = [thr EXCEPT ![c].pc = "dispatch"]
            /\ UNCHANGED doneCh
    /\ UNCHANGED << pc, nextID, objects, listeners, registryVars, lastError, rt, tx,
                    rx, rxMeta, ret, calls, lastFrame, ops, peer, hist, registered,
                    freed, allocVars, sendVars, conn, sock,
                    call, tab, dev >>

RaceSelect == \E c \in Callers : RaceSelectOf(c)

\* a Dispatch call of the thread that runs Dispatch in a loop
LoopDispatch ==
    /\ pc = "ready"
    /\ ReadReturns
    /\ \E d \in {Dispatch} :
           /\ DispatchWrites(d)
           /\ doneCh' = d.doneCh
           /\ thr' = Acked(LoopThread, d)
    /\ UNCHANGED raceFrame

NextRace ==
    \/ ConnectRegistry
    \/ getRegistry
    \/ ConnectRoundtrip
    \/ RoundtripDispatch
    \/ RaceBegin
    \/ RaceDispatch
    \/ RaceSelect
    \/ LoopDispatch
    \/ PeerSync
    \/ PeerGetRegistry

SpecRace == Init /\ [][NextRace]_vars

(***************************************************************************)
(* Spec: Connect, then Bind, Roundtrip and Dispatch against the compositor.*)
(***************************************************************************)
Next ==
    \/ ConnectRegistry
    \/ getRegistry
    \/ ConnectRoundtrip
    \/ Roundtrip
    \/ RoundtripDispatch
    \/ DispatchCall
    \/ Bind
    \/ PeerSync
    \/ PeerGetRegistry
    \/ PeerBindAccept
    \/ PeerBindReject
    \/ PeerAnnounce
    \/ PeerRemove

Spec == Init /\ [][Next]_vars

(***************************************************************************)
(* SpecError: wl_display.error events the compositor sends of its own      *)
(* accord, whole or with a body shorter than the three words of the        *)
(* event, between the calls of the user.                                   *)
(***************************************************************************)
\* the lengths of the bodies of the error events cut short
ShortErrorSizes == {0, 8}

\* wl_display.error sent without a request that caused it
PeerError ==
    /\ peer.registry # 0
    /\ peer.events < MaxEvents
    /\ \E obj \in ErrObjects, code \in ErrCodes, message \in ErrMessages :
          Emit(1, 0, ErrorBody(obj, code, message),
               [type |-> "error", obj |-> obj, code |-> code, message |-> message])
    /\ peer' = [peer EXCEPT !.events = @ + 1]
    /\ hist' = [hist EXCEPT !.evSent = @ + 1,
                            !.errs = @ \cup {hist.evSent + 1}]
    /\ UNCHANGED tx
    /\ UNCHANGED peerFrame

\* wl_display.error with a body of ShortErrorSizes bytes: the first bytes
\* of a whole error event
PeerShortError ==
    /\ peer.registry # 0
    /\ peer.events < MaxEvents
    /\ \E obj \in ErrObjects, code \in ErrCodes, size \in ShortErrorSizes :
          Emit(1, 0, Slice(ErrorBody(obj, code, << >>), 0, size),
               [type |-> "short error", size |-> size])
    /\ peer' = [peer EXCEPT !.events = @ + 1]
    /\ hist' = [hist EXCEPT !.evSent = @ + 1]
    /\ UNCHANGED tx
    /\ UNCHANGED peerFrame

NextError ==
    \/ ConnectRegistry
    \/ getRegistry
    \/ ConnectRoundtrip
    \/ Roundtrip
    \/ RoundtripDispatch
    \/ DispatchCall
    \/ Bind
    \/ PeerSync
    \/ PeerGetRegistry
    \/ PeerBindAccept
    \/ PeerError
    \/ PeerShortError

SpecError == Init /\ [][NextError]_vars

(***************************************************************************)
(* SpecRegistry: the registry's map under announce and remove events, with *)
(* FindGlobal and AddHandler.                                              *)
(***************************************************************************)
NextRegistry ==
    \/ ConnectRegistry
    \/ getRegistry
    \/ ConnectRoundtrip
    \/ RoundtripDispatch
    \/ DispatchCall
    \/ FindGlobal
    \/ AddHandler
    \/ PeerSync
    \/ PeerGetRegistry
    \/ PeerAnnounce
    \/ PeerRemove

SpecRegistry == Init /\ [][NextRegistry]_vars

(***************************************************************************)
(* SpecListen: the listener table under AddListener, Roundtrip and         *)
(* Dispatch.                                                               *)
(***************************************************************************)
NextListen ==
    \/ ConnectRegistry
    \/ getRegistry
    \/ ConnectRoundtrip
    \/ Roundtrip
    \/ RoundtripDispatch
    \/ DispatchCall
    \/ AddListenerCall
    \/ PeerSync
    \/ PeerGetRegistry
    \/ PeerAnnounce
    \/ PeerDeleteId

SpecListen == Init /\ [][NextListen]_vars

(***************************************************************************)
(* SpecDispatch: Dispatch on the frames of a compositor that sends events  *)
(* to any object, and delete_id events.                                    *)
(***************************************************************************)
NextDispatch ==
    \/ ConnectRegistry
    \/ getRegistry
    \/ ConnectRoundtrip
    \/ RoundtripDispatch
    \/ DispatchCall
    \/ AddListenerCall
    \/ PeerSync
    \/ PeerGetRegistry
    \/ PeerEvent
    \/ PeerDestroy

SpecDispatch == Init /\ [][NextDispatch]_vars

(***************************************************************************)
(* SpecFraming: Dispatch on the frames of a compositor that sends          *)
(* malformed frames and that may close the stream in the middle of a       *)
(* frame.                                                                  *)
(***************************************************************************)
NextFraming ==
    \/ ConnectRegistry
    \/ getRegistry
    \/ ConnectRoundtrip
    \/ RoundtripDispatch
    \/ DispatchCall
    \/ AddListenerCall
    \/ PeerSync
    \/ PeerGetRegistry
    \/ PeerMalformed
    \/ PeerHangup

SpecFraming == Init /\ [][NextFraming]_vars

(***************************************************************************)
(* SpecLive: Roundtrip against a compositor that answers every request it  *)
(* can read, with a thread that may call Close.  The thread in Roundtrip   *)
(* keeps running, and the compositor keeps handling requests.              *)
(***************************************************************************)
NextLive ==
    \/ ConnectRegistry
    \/ getRegistry
    \/ ConnectRoundtrip
    \/ Roundtrip
    \/ RoundtripDispatch
    \/ CloseCall
    \/ PeerSync
    \/ PeerGetRegistry
    \/ PeerAnnounce

SpecLive ==
    /\ Init
    /\ [][NextLive]_vars
    /\ WF_vars(RoundtripDispatch)
    /\ WF_vars(PeerSync)
    /\ WF_vars(PeerGetRegistry)

(***************************************************************************)
(* SendRequest as a function of its arguments: the call is made on the     *)
(* Display of Init with one object id, one opcode and one argument list.   *)
(* An argument is named by its type and a number n: the length of a string *)
(* or byte array, the choice of a value otherwise.                         *)
(***************************************************************************)
\* the cases of the type switch of marshalArg, and its default
ArgKinds == {"uint32", "int32", "fixed", "string", "bytes", "object", "nil",
             "other"}

\* a 32-bit value: zero, one, 0xffffffff (-1), 0x80000000, 0x7fffffff, ...
ValueOf(n) ==
    CASE n = 0 -> 0
      [] n = 1 -> 1
      [] n = 2 -> -1
      [] n = 3 -> MinInt32
      [] n = 4 -> MaxInt32
      [] OTHER -> 256 * n + 255

\* the n bytes of a string or byte array
ContentOf(n) == [i \in 1..n |-> (41 * i) % 256]

ArgDescs ==
    { d \in [type : ArgKinds, n : 0..MaxArgLen] :
         d.type \in {"nil", "other"} => d.n = 0 }

\* the Go value a description stands for
ArgOf(d) ==
    [type |-> d.type,
     v |-> IF d.type \in {"string", "bytes"} THEN ContentOf(d.n)
           ELSE IF d.type \in {"nil", "other"} THEN 0
           ELSE ValueOf(d.n)]

ArgsOf(ds) == [i \in DOMAIN ds |-> ArgOf(ds[i])]

\* argument lists whose encoding is short
ShortLists ==
    {<< >>} \cup {<<a>> : a \in ArgDescs}
            \cup {<<a, b>> : a \in ArgDescs, b \in ArgDescs}

\* argument lists with one long string or byte array
LongLists ==
    { <<[type |-> "bytes", n |-> LongLen - 8]>>,
      <<[type |-> "bytes", n |-> LongLen]>>,
      <<[type |-> "string", n |-> LongLen]>>,
      <<[type |-> "uint32", n |-> 1], [type |-> "bytes", n |-> LongLen]>> }

\* the object ids (1 and 0xffffffff) and opcodes of the calls
CallObjectIDs == {1, -1}
CallOpcodes == {0, 1, 65535}

InitCodec ==
    /\ pc = "call"
    /\ sock = [arg |-> << >>, display |-> << >>, runDir |-> << "/", "r" >>,
               path |-> Join(<< "/", "r" >>, DefaultSocket), consulted |-> TRUE,
               dials |-> 1]
    /\ \E objectID \in CallObjectIDs, opcode \in CallOpcodes,
          args \in ShortLists \cup LongLists :
          call = [op |-> "SendRequest", state |-> "called",
                  objectID |-> objectID, opcode |-> opcode, args |-> args,
                  err |-> FALSE, before |-> 0, after |-> 0]
    /\ tab = NoTab
    /\ InitDisplay

\* d.SendRequest(objectID, opcode, args...): nothing is written when an
\* argument fails to marshal, the whole frame otherwise
SendRequestCall ==
    /\ pc = "call"
    /\ call.op = "SendRequest"
    /\ call.state = "called"
    /\ \E frame \in {SendRequestFrame(call.objectID, call.opcode,
                                       ArgsOf(call.args))} :
          /\ IF frame.err
             THEN UNCHANGED << tx, lastFrame, hist >>
             ELSE Written(frame)
          /\ call' = [call EXCEPT !.state = "returned", !.err = frame.err,
                                  !.before = Len(tx), !.after = Len(tx')]
    /\ UNCHANGED << pc, nextID, objects, listeners, registryVars, lastError,
                    doneCh, rt, rx, rxMeta, ret, calls, ops, peer, registered,
                    freed, allocVars, sendVars, conn, thr, sock, tab, dev >>

NextCodec ==
    \/ SendRequestCall

SpecCodec == InitCodec /\ [][NextCodec]_vars

(***************************************************************************)
(* Fixed, the 24.8 fixed-point number.  A float64 is the dyadic rational   *)
(* [m, e], the value m / 2^e; the values of the calls have a mantissa of   *)
(* at most 31 bits, which float64 holds exactly, as it holds their         *)
(* products with 256 and the quotients of an int32 by 256.                 *)
(***************************************************************************)
Pow2(k) == 2 ^ k

Abs(x) == IF x < 0 THEN -x ELSE x

\* Go's conversion of a float64 in the range of int32 to an integer type:
\* the fraction is discarded (truncation toward zero); here of m / 2^k
Truncate(m, k) ==
    IF m >= 0 THEN m \div Pow2(k) ELSE -((-m) \div Pow2(k))

\* m / 2^e times 256 is less than 2^31 in magnitude
InFixedRange(v) ==
    v.e >= 8 \/ Abs(v.m) <= MaxInt32 \div Pow2(8 - v.e)

\* mutant of NewFixed: rounds down, as math.Floor would
NewFixedFloor(v) ==
    IF v.e >= 8 THEN {v.m \div Pow2(v.e - 8)}
    ELSE IF InFixedRange(v) THEN {v.m * Pow2(8 - v.e)}
    ELSE IF v.m = (-(MaxInt32 \div Pow2(8 - v.e))) - 1 THEN {MinInt32}
    ELSE {MinInt32, MaxInt32}

\* NewFixed(v) = Fixed(v * 256.0): the values the conversion can give.  The
\* product is exact; out of the range of int32 the result of the
\* conversion depends on the processor (0x80000000 or the nearest bound)
NewFixed(v) ==
    IF v.e >= 8 THEN {Truncate(v.m, v.e - 8)}
    ELSE IF InFixedRange(v) THEN {v.m * Pow2(8 - v.e)}
    ELSE IF v.m = (-(MaxInt32 \div Pow2(8 - v.e))) - 1 THEN {MinInt32}
    ELSE {MinInt32, MaxInt32}

\* Fixed.Float64() = float64(f) / 256.0
Float64(f) == [m |-> f, e |-> 8]

\* the values of the calls: the small mantissas, and those around 2^23 and
\* 2^31, over every exponent
Mantissas ==
    (-MaxMantissa..MaxMantissa)
       \cup {8388607, 8388608, MaxInt32, -8388607, -8388608, -8388609, -MaxInt32}

FixedInputs == [m : Mantissas, e : 0..MaxExponent]

InitFixed ==
    /\ pc = "call"
    /\ sock = [arg |-> << >>, display |-> << >>, runDir |-> << "/", "r" >>,
               path |-> Join(<< "/", "r" >>, DefaultSocket), consulted |-> TRUE,
               dials |-> 1]
    /\ \E v \in FixedInputs :
          call = [op |-> "NewFixed", state |-> "called", v |-> v, f |-> 0,
                  back |-> [m |-> 0, e |-> 0]]
    /\ tab = NoTab
    /\ InitDisplay

\* f := NewFixed(v)
NewFixedCall ==
    /\ call.op = "NewFixed"
    /\ call.state = "called"
    /\ \E f \in NewFixed(call.v) :
          call' = [call EXCEPT !.state = "made", !.f = f]
    /\ UNCHANGED << pc, nextID, objects, listeners, registryVars, lastError,
                    doneCh, rt, tx, rx, rxMeta, ret, calls, lastFrame, ops,
                    peer, hist, registered, freed, allocVars, sendVars, conn,
                    thr, sock, tab, dev >>

\* f.Float64()
Float64Call ==
    /\ call.op = "NewFixed"
    /\ call.state = "made"
    /\ call' = [call EXCEPT !.state = "returned", !.back = Float64(call.f)]
    /\ UNCHANGED << pc, nextID, objects, listeners, registryVars, lastError,
                    doneCh, rt, tx, rx, rxMeta, ret, calls, lastFrame, ops,
                    peer, hist, registered, freed, allocVars, sendVars, conn,
                    thr, sock, tab, dev >>

NextFixed ==
    \/ NewFixedCall
    \/ Float64Call

SpecFixed == InitFixed /\ [][NextFixed]_vars

(***************************************************************************)
(* The tables of a Display under several threads.  Two threads call        *)
(* AddListener, AddHandler, FindGlobal and allocateID while a third calls  *)
(* Dispatch in a loop.  Each access to a Go map is a step of its own, so   *)
(* that the steps of the threads interleave as the code lets them: the     *)
(* sync.Map operations and atomic.AddUint32 are single steps, Registry.mu  *)
(* and Display.recvMu are held from Lock to Unlock, and nothing else       *)
(* orders the accesses.                                                    *)
(***************************************************************************)
Threads == Callers \cup {LoopThread}

\* the Go map a thread is about to access, the key, whether it writes, and
\* the locks it holds; a thread at any other step has no access at hand
NoAccess == [map |-> << >>, key |-> << >>, write |-> FALSE, locks |-> {}]
Access(c) ==
    LET t == tab.t[c]
    IN  CASE t.pc = "append-read" ->
               [map |-> <<"listeners", t.objectID>>, key |-> <<t.opcode>>,
                write |-> FALSE, locks |-> {}]
          [] t.pc = "append-write" ->
               [map |-> <<"listeners", t.objectID>>, key |-> <<t.opcode>>,
                write |-> TRUE, locks |-> {}]
          [] t.pc = "handlers-write" ->
               [map |-> <<"handlers">>, key |-> t.iface, write |-> TRUE,
                locks |-> {}]
          [] t.pc = "scan" ->
               [map |-> <<"globals">>, key |-> << >>, write |-> FALSE,
                locks |-> {"mu"}]
          [] t.pc = "lookup" ->
               [map |-> <<"listeners", t.objectID>>, key |-> <<t.opcode>>,
                write |-> FALSE, locks |-> {"recvMu"}]
          [] t.pc = "store" ->
               [map |-> <<"globals">>, key |-> << >>, write |-> TRUE,
                locks |-> {"recvMu", "mu"}]
          [] t.pc = "handler" ->
               [map |-> <<"handlers">>, key |-> t.iface, write |-> FALSE,
                locks |-> {"recvMu"}]
          [] OTHER -> NoAccess

\* threads c and d are about to access the same map, one of them writing,
\* and hold no lock in common
Conflict(c, d) ==
    /\ c # d
    /\ Access(c).map # << >>
    /\ Access(c).map = Access(d).map
    /\ Access(c).write \/ Access(d).write
    /\ Access(c).locks \cap Access(d).locks = {}

sharedFrame == << pc, objects, regID, lastError, doneCh, rt, tx, lastFrame, ops,
                 peer, freed, sendVars, conn, thr, sock, call, dev >>

Running == pc = "ready" /\ ~tab.crashed

\* what a thread is left with when its call returns
Returned(t) == [IdleThread EXCEPT !.n = t.n + 1]

\* a thread calls AddListener, AddHandler, FindGlobal or allocateID
SharedCall ==
    /\ Running
    /\ \E c \in Callers :
          /\ tab.t[c].pc = "idle"
          /\ tab.t[c].n < MaxShared
          /\ \/ \E objectID \in ListenIDs, opcode \in ListenOpcodes :
                   tab' = [tab EXCEPT !.t[c] =
                             [@ EXCEPT !.pc = "load-or-store", !.op = "AddListener",
                                       !.objectID = objectID, !.opcode = opcode,
                                       !.tag = c]]
             \/ \E iface \in Ifaces :
                   tab' = [tab EXCEPT !.t[c] =
                             [@ EXCEPT !.pc = "handlers-write", !.op = "AddHandler",
                                       !.iface = iface, !.tag = c]]
             \/ \E iface \in Ifaces :
                   tab' = [tab EXCEPT !.t[c] =
                             [@ EXCEPT !.pc = "rlock", !.op = "FindGlobal",
                                       !.iface = iface]]
             \/ tab' = [tab EXCEPT !.t[c] =
                          [@ EXCEPT !.pc = "add-uint32", !.op = "allocateID"]]
    /\ UNCHANGED << nextID, allocVars, listeners, registered, globals, handlers,
                    rx, rxMeta, hist, ret, calls, sharedFrame >>

\* AddListener: d.listeners.LoadOrStore(objectID, make(map...))
LoadOrStore ==
    /\ Running
    /\ \E c \in Callers :
          /\ tab.t[c].pc = "load-or-store"
          /\ listeners' = IF tab.t[c].objectID \in DOMAIN listeners THEN listeners
                          ELSE MapPut(listeners, tab.t[c].objectID, EmptyMap)
          /\ tab' = [tab EXCEPT !.t[c].pc = "append-read"]
    /\ UNCHANGED << nextID, allocVars, registered, globals, handlers, rx, rxMeta,
                    hist, ret, calls, sharedFrame >>

\* AddListener: the read of opcodeMap[opcode] in append(opcodeMap[opcode], handler)
AppendRead ==
    /\ Running
    /\ \E c \in Callers :
          /\ tab.t[c].pc = "append-read"
          /\ tab' = [tab EXCEPT !.t[c].pc = "append-write",
                                !.t[c].old = ListenersOf(listeners, tab.t[c].objectID,
                                                         tab.t[c].opcode)]
    /\ UNCHANGED << nextID, allocVars, listeners, registered, globals, handlers,
                    rx, rxMeta, hist, ret, calls, sharedFrame >>

\* AddListener: the assignment opcodeMap[opcode] = append(...)
AppendWrite ==
    /\ Running
    /\ \E c \in Callers :
          LET t == tab.t[c]
          IN  /\ t.pc = "append-write"
              /\ listeners' = MapPut(listeners, t.objectID,
                                     MapPut(listeners[t.objectID], t.opcode,
                                            Append(t.old, HUser(t.tag))))
              /\ registered' = Append(registered,
                                      Registration(t.objectID, t.opcode, HUser(t.tag)))
              /\ ret' = [op |-> "AddListener", objectID |-> t.objectID,
                         opcode |-> t.opcode, tag |-> t.tag]
              /\ tab' = [tab EXCEPT !.t[c] = Returned(t)]
    /\ UNCHANGED << nextID, allocVars, globals, handlers, rx, rxMeta, hist, calls,
                    sharedFrame >>

\* AddHandler: r.handlers[iface] = handler
AddHandlerWrite ==
    /\ Running
    /\ \E c \in Callers :
          LET t == tab.t[c]
          IN  /\ t.pc = "handlers-write"
              /\ handlers' = MapPut(handlers, t.iface, t.tag)
              /\ ret' = [op |-> "AddHandler", iface |-> t.iface, tag |-> t.tag]
              /\ tab' = [tab EXCEPT !.t[c] = Returned(t)]
    /\ UNCHANGED << nextID, allocVars, listeners, registered, globals, rx, rxMeta,
                    hist, calls, sharedFrame >>

\* FindGlobal: r.mu.RLock()
FindGlobalRLock ==
    /\ Running
    /\ \E c \in Callers :
          /\ tab.t[c].pc = "rlock"
          /\ tab.mu.w = 0
          /\ tab' = [tab EXCEPT !.t[c].pc = "scan", !.mu.r = @ \cup {c}]
    /\ UNCHANGED << nextID, allocVars, listeners, registered, globals, handlers,
                    rx, rxMeta, hist, ret, calls, sharedFrame >>

\* FindGlobal: the range over r.globals, then the deferred r.mu.RUnlock()
FindGlobalScan ==
    /\ Running
    /\ \E c \in Callers :
          LET t == tab.t[c]
          IN  /\ t.pc = "scan"
              /\ ret' = [op |-> "FindGlobal", iface |-> t.iface,
                         found |-> \E name \in DOMAIN globals :
                                      globals[name].Interface = t.iface]
              /\ tab' = [tab EXCEPT !.t[c] = Returned(t), !.mu.r = @ \ {c}]
    /\ UNCHANGED << nextID, allocVars, listeners, registered, globals, handlers,
                    rx, rxMeta, hist, calls, sharedFrame >>

\* allocateID: atomic.AddUint32(&d.nextID, 1) - 1
AllocateCall ==
    /\ Running
    /\ \E c \in Callers :
          LET t == tab.t[c]
          IN  /\ t.pc = "add-uint32"
              /\ got' = [got EXCEPT ![c] = [id |-> allocateID, calls |-> @.calls + 1]]
              /\ AllocOne
              /\ ret' = [op |-> "allocateID", id |-> allocateID]
              /\ tab' = [tab EXCEPT !.t[c] = Returned(t)]
    /\ UNCHANGED << listeners, registered, globals, handlers, rx, rxMeta, hist,
                    calls, sharedFrame >>

\* Dispatch of the loop: recvMu.Lock(), the header and the body are read
LoopRead ==
    /\ Running
    /\ tab.t[LoopThread].pc = "idle"
    /\ tab.recvMu = 0
    /\ FrameReady
    /\ LET header == Slice(rx, 0, 8)
           size == HeaderSize(header)
       IN  /\ HeaderObjectID(header) # 1
           /\ tab' = [tab EXCEPT !.recvMu = LoopThread,
                                 !.t[LoopThread] =
                                    [@ EXCEPT !.pc = "lookup", !.op = "Dispatch",
                                              !.objectID = HeaderObjectID(header),
                                              !.opcode = HeaderOpcode(header),
                                              !.body = IF size > 8
                                                       THEN Slice(rx, 8, size)
                                                       ELSE << >>]]
           /\ rx' = SliceFrom(rx, FrameBytes(header))
    /\ rxMeta' = Tail(rxMeta)
    /\ hist' = Dispatched(Head(rxMeta))
    /\ calls' = << >>
    /\ UNCHANGED << nextID, allocVars, listeners, registered, globals, handlers,
                    ret, sharedFrame >>

\* Dispatch: d.listeners.Load(objectID) and the read of opcodeMap[opcode]
LoopLookup ==
    /\ Running
    /\ tab.t[LoopThread].pc = "lookup"
    /\ tab' = [tab EXCEPT !.t[LoopThread].pc = "run",
                          !.t[LoopThread].old =
                              ListenersOf(listeners, tab.t[LoopThread].objectID,
                                          tab.t[LoopThread].opcode)]
    /\ UNCHANGED << nextID, allocVars, listeners, registered, globals, handlers,
                    rx, rxMeta, hist, ret, calls, sharedFrame >>

\* Dispatch: the next handler is called, or Dispatch returns (recvMu.Unlock)
LoopRun ==
    /\ Running
    /\ LET t == tab.t[LoopThread]
       IN  /\ t.pc = "run"
           /\ IF t.old = << >>
              THEN /\ tab' = [tab EXCEPT !.recvMu = 0, !.t[LoopThread] = Returned(t)]
                   /\ UNCHANGED calls
              ELSE /\ calls' = Append(calls, [h |-> Head(t.old), body |-> t.body])
                   /\ IF Head(t.old).kind = "handleGlobal" /\ DecodeGlobal(t.body).ok
                      THEN tab' = [tab EXCEPT
                                     !.t[LoopThread].pc = "lock",
                                     !.t[LoopThread].iface =
                                         DecodeGlobal(t.body).Interface]
                      ELSE tab' = [tab EXCEPT !.t[LoopThread].old = Tail(@)]
    /\ UNCHANGED << nextID, allocVars, listeners, registered, globals, handlers,
                    rx, rxMeta, hist, ret, sharedFrame >>

\* handleGlobal: r.mu.Lock()
LoopLock ==
    /\ Running
    /\ tab.t[LoopThread].pc = "lock"
    /\ tab.mu.w = 0
    /\ tab.mu.r = {}
    /\ tab' = [tab EXCEPT !.mu.w = LoopThread, !.t[LoopThread].pc = "store"]
    /\ UNCHANGED << nextID, allocVars, listeners, registered, globals, handlers,
                    rx, rxMeta, hist, ret, calls, sharedFrame >>

\* the state handleGlobal is applied to
GlobalState ==
    [globals |-> globals, objects |-> objects, doneCh |-> doneCh,
     calls |-> calls, blocked |-> FALSE]

\* mutant of Unlock: defer r.mu.Unlock(), the lock is still held while the
\* rest of handleGlobal runs
UnlockDeferred(mu) == mu

\* r.mu.Unlock() by the writer
Unlock(mu) == [mu EXCEPT !.w = 0]

\* handleGlobal: r.globals[name] = Global{...}; r.mu.Unlock()
LoopStore ==
    /\ Running
    /\ tab.t[LoopThread].pc = "store"
    /\ globals' = handleGlobal(GlobalState, tab.t[LoopThread].body).globals
    /\ tab' = [tab EXCEPT !.mu = Unlock(@), !.t[LoopThread].pc = "handler"]
    /\ UNCHANGED << nextID, allocVars, listeners, registered, handlers, rx, rxMeta,
                    hist, ret, calls, sharedFrame >>

\* handleGlobal: handler, ok := r.handlers[iface], and the call of handler
LoopHandler ==
    /\ Running
    /\ tab.t[LoopThread].pc = "handler"
    /\ calls' = handleGlobal(GlobalState, tab.t[LoopThread].body).calls
    /\ tab' = [tab EXCEPT !.t[LoopThread].pc = "run", !.t[LoopThread].old = Tail(@)]
    /\ UNCHANGED << nextID, allocVars, listeners, registered, globals, handlers,
                    rx, rxMeta, hist, ret, sharedFrame >>

\* two accesses to one Go map, one a write, with nothing to order them: the
\* runtime may stop the program ("fatal error: concurrent map read and map
\* write"); when it does not, the steps above interleave
MapFault ==
    /\ Running
    /\ \E c \in Threads, d \in Threads : Conflict(c, d)
    /\ tab' = [tab EXCEPT !.crashed = TRUE]
    /\ UNCHANGED << nextID, allocVars, listeners, registered, globals, handlers,
                    rx, rxMeta, hist, ret, calls, sharedFrame >>

NextShared ==
    \/ ConnectRegistry
    \/ getRegistry
    \/ ConnectRoundtrip
    \/ RoundtripDispatch
    \/ PeerSync
    \/ PeerGetRegistry
    \/ PeerAnnounce
    \/ PeerEvent
    \/ SharedCall
    \/ LoadOrStore
    \/ AppendRead
    \/ AppendWrite
    \/ AddHandlerWrite
    \/ FindGlobalRLock
    \/ FindGlobalScan
    \/ AllocateCall
    \/ LoopRead
    \/ LoopLookup
    \/ LoopRun
    \/ LoopLock
    \/ LoopStore
    \/ LoopHandler
    \/ MapFault

SpecShared == Init /\ [][NextShared]_vars

(***************************************************************************)
(* SpecReenter: the GlobalHandler of an interface calls back into the      *)
(* registry.  One thread calls Dispatch in a loop; the handler it runs     *)
(* calls FindGlobal of the announced interface, GetGlobals, or Bind of the *)
(* announced global, each lock being taken in a step of its own.           *)
(***************************************************************************)
\* what a GlobalHandler calls
CallbackOps == {"FindGlobal", "GetGlobals", "Bind"}

\* the global of the event the loop is handling, as handleGlobal decodes it
Announced ==
    LET g == DecodeGlobal(tab.t[LoopThread].body)
    IN  [Name |-> g.Name, Interface |-> g.Interface, Version |-> g.Version]

\* the handler has returned: handleGlobal returns to the loop of Dispatch
CallbackReturned == [tab.t[LoopThread] EXCEPT !.pc = "run", !.old = Tail(@)]

\* handleGlobal: handler, ok := r.handlers[iface]; handler(r, name, version)
\* begins, about to make one of the calls of CallbackOps
HandlerCall ==
    /\ Running
    /\ tab.t[LoopThread].pc = "handler"
    /\ calls' = handleGlobal(GlobalState, tab.t[LoopThread].body).calls
    /\ IF tab.t[LoopThread].iface \in DOMAIN handlers
       THEN \E op \in CallbackOps :
               tab' = [tab EXCEPT !.t[LoopThread].op = op,
                                  !.t[LoopThread].pc =
                                      IF op = "Bind" THEN "cb-bind" ELSE "cb-rlock"]
       ELSE tab' = [tab EXCEPT !.t[LoopThread] = CallbackReturned]
    /\ UNCHANGED << nextID, allocVars, listeners, registered, globals, handlers,
                    rx, rxMeta, hist, ret, sharedFrame >>

\* FindGlobal and GetGlobals in the handler: r.mu.RLock() returns when no
\* writer holds the lock
CallbackRLock ==
    /\ Running
    /\ tab.t[LoopThread].pc = "cb-rlock"
    /\ tab.mu.w = 0
    /\ tab' = [tab EXCEPT !.mu.r = @ \cup {LoopThread},
                          !.t[LoopThread].pc = "cb-read"]
    /\ UNCHANGED << nextID, allocVars, listeners, registered, globals, handlers,
                    rx, rxMeta, hist, ret, calls, sharedFrame >>

\* FindGlobal(iface) in the handler: the range over r.globals returns the
\* first global of the interface it comes to; the deferred r.mu.RUnlock()
CallbackFindGlobal ==
    /\ Running
    /\ tab.t[LoopThread].pc = "cb-read"
    /\ tab.t[LoopThread].op = "FindGlobal"
    /\ \E iface \in {tab.t[LoopThread].iface} :
          \/ \E name \in DOMAIN globals :
                /\ globals[name].Interface = iface
                /\ ret' = [op |-> "FindGlobal", by |-> "handler", iface |-> iface,
                           found |-> TRUE, global |-> globals[name],
                           globals |-> globals, announced |-> Announced,
                           shown |-> hist.shown]
          \/ /\ \A name \in DOMAIN globals : globals[name].Interface # iface
             /\ ret' = [op |-> "FindGlobal", by |-> "handler", iface |-> iface,
                        found |-> FALSE,
                        global |-> [Name |-> 0, Interface |-> << >>, Version |-> 0],
                        globals |-> globals, announced |-> Announced,
                        shown |-> hist.shown]
    /\ tab' = [tab EXCEPT !.mu.r = @ \ {LoopThread},
                          !.t[LoopThread] = CallbackReturned]
    /\ UNCHANGED << nextID, allocVars, listeners, registered, globals, handlers,
                    rx, rxMeta, hist, calls, sharedFrame >>

\* GetGlobals() in the handler: the copy of r.globals; the deferred
\* r.mu.RUnlock()
CallbackGetGlobals ==
    /\ Running
    /\ tab.t[LoopThread].pc = "cb-read"
    /\ tab.t[LoopThread].op = "GetGlobals"
    /\ ret' = [op |-> "GetGlobals", by |-> "handler", globals |-> globals,
               announced |-> Announced]
    /\ tab' = [tab EXCEPT !.mu.r = @ \ {LoopThread},
                          !.t[LoopThread] = CallbackReturned]
    /\ UNCHANGED << nextID, allocVars, listeners, registered, globals, handlers,
                    rx, rxMeta, hist, calls, sharedFrame >>

\* Bind(name, iface, version) in the handler: allocateID, then SendRequest,
\* whose d.sendMu.Lock() returns when nobody holds the mutex
CallbackBind ==
    /\ Running
    /\ tab.t[LoopThread].pc = "cb-bind"
    /\ MutexFree(sendMu)
    /\ \E g \in {Announced} :
          /\ Written(BindFrame(regID, g.Name, g.Interface, g.Version, allocateID))
          /\ ret' = [op |-> "Bind", by |-> "handler", err |-> NilErr,
                     id |-> allocateID, name |-> g.Name, iface |-> g.Interface,
                     version |-> g.Version, frame |-> lastFrame',
                     evBefore |-> hist.evRead, evAfter |-> hist'.evRead]
    /\ AllocOne
    /\ tab' = [tab EXCEPT !.t[LoopThread] = CallbackReturned]
    /\ UNCHANGED << pc, objects, regID, lastError, doneCh, rt, ops, peer, freed,
                    sendVars, conn, thr, sock, call, dev, got, listeners,
                    registered, globals, handlers, rx, rxMeta, calls >>

NextReenter ==
    \/ ConnectRegistry
    \/ getRegistry
    \/ ConnectRoundtrip
    \/ RoundtripDispatch
    \/ PeerSync
    \/ PeerGetRegistry
    \/ PeerAnnounce
    \/ PeerBindAccept
    \/ AddHandler
    \/ LoopRead
    \/ LoopLookup
    \/ LoopRun
    \/ LoopLock
    \/ LoopStore
    \/ HandlerCall
    \/ CallbackRLock
    \/ CallbackFindGlobal
    \/ CallbackGetGlobals
    \/ CallbackBind

SpecReenter == Init /\ [][NextReenter]_vars

(***************************************************************************)
(* SpecNested: two threads call Dispatch, and the callbacks of the user    *)
(* (listeners of AddListener, handlers of AddHandler) call Dispatch or     *)
(* Roundtrip themselves, while a third thread may close the connection.    *)
(* Dispatch is a step for the lock and the reads, then a step for each     *)
(* listener, then the return with the deferred unlock.                     *)
(***************************************************************************)
\* what a callback of the user does: nothing, or a call on the display
ListenerOps == {"return", "Dispatch", "Roundtrip"}

nestedFrame == << pc, regID, handlers, rt, ops, peer, got, sendVars, thr, sock,
                  call, dev >>

\* mutant of RecvHeld: d.recvMu.Unlock() follows the reads, the listeners
\* run without the lock
RecvHeldForReads(c) == 0

\* defer d.recvMu.Unlock(): the holder of recvMu once the frame is read and
\* the listeners are about to run
RecvHeld(c) == c

\* the deferred d.recvMu.Unlock() of caller c
RecvUnlock(mu, c) == IF mu = c THEN 0 ELSE mu

\* the frame a thread is working on
FrameOf(t) ==
    [objectID |-> t.objectID, opcode |-> t.opcode, old |-> t.old,
     body |-> t.body, ev |-> t.ev]

\* the thread goes on with the listeners of frame f, the call its listener
\* made having returned
Resumed(t, f) ==
    [t EXCEPT !.pc = "run", !.objectID = f.objectID, !.opcode = f.opcode,
              !.old = Tail(f.old), !.body = f.body, !.ev = f.ev,
              !.nested = "none", !.outer = << >>]

\* the callback at the head of t.old is code of the user: a listener of
\* AddListener, or handleGlobal with a handler for the interface announced
UserCode(t) ==
    \/ Head(t.old).kind = "user"
    \/ /\ Head(t.old).kind = "handleGlobal"
       /\ DecodeGlobal(t.body).ok
       /\ DecodeGlobal(t.body).Interface \in DOMAIN handlers

\* Dispatch, called by a thread or by the callback a thread runs:
\* d.recvMu.Lock() returns when nobody holds the lock, then the header and
\* the body are read
NestedRead ==
    /\ Running
    /\ \E c \in Callers :
          LET t == tab.t[c]
              header == Slice(rx, 0, 8)
              size == HeaderSize(header)
              inner == t.pc = "nested-lock"
              f == IF inner /\ t.outer = << >> THEN <<FrameOf(t)>> ELSE t.outer
          IN  /\ \/ t.pc = "idle" /\ t.n < MaxShared
                 \/ inner
              /\ tab.recvMu = 0
              /\ ReadReturns
              /\ IF Dispatch.failed
                 THEN /\ rx' = SliceFrom(rx, Dispatch.read)
                      /\ ret' = [op |-> IF inner THEN t.nested ELSE "Dispatch",
                                 by |-> IF inner THEN "listener" ELSE "thread",
                                 err |-> Dispatch.err, ev |-> 0,
                                 written |-> inner]
                      /\ tab' = [tab EXCEPT
                                   !.t[c] = IF inner THEN Resumed(t, Head(f))
                                            ELSE [IdleThread EXCEPT !.n = t.n + 1]]
                      /\ UNCHANGED << rxMeta, hist >>
                 ELSE /\ rx' = SliceFrom(rx, FrameBytes(header))
                      /\ rxMeta' = Tail(rxMeta)
                      /\ hist' = Dispatched(Head(rxMeta))
                      /\ tab' = [tab EXCEPT
                                   !.recvMu = RecvHeld(c),
                                   !.t[c] = [t EXCEPT
                                      !.pc = "run", !.op = "Dispatch",
                                      !.objectID = HeaderObjectID(header),
                                      !.opcode = HeaderOpcode(header),
                                      !.old = IF HeaderObjectID(header) = 1 THEN << >>
                                              ELSE ListenersOf(listeners,
                                                               HeaderObjectID(header),
                                                               HeaderOpcode(header)),
                                      !.body = IF size > 8 THEN Slice(rx, 8, size)
                                               ELSE << >>,
                                      !.ev = hist.evRead + 1,
                                      !.outer = f]]
                      /\ UNCHANGED ret
    /\ UNCHANGED << nextID, objects, listeners, globals, lastError, doneCh, tx,
                    calls, lastFrame, registered, alloc, freed, conn, nestedFrame >>

\* Dispatch: the next listener of the frame is called and does what
\* ListenerOps lets it do, or the listeners are through and Dispatch returns
\* nil, the deferred unlock done
NestedRun ==
    /\ Running
    /\ \E c \in Callers :
          LET t == tab.t[c]
              st == CallHandler(GlobalState, Head(t.old), t.body)
          IN  /\ t.pc = "run"
              /\ IF t.old # << >>
                 THEN /\ calls' = Append(calls, [h |-> Head(t.old), body |-> t.body,
                                                 ev |-> t.ev, by |-> c])
                      /\ globals' = st.globals
                      /\ objects' = st.objects
                      /\ doneCh' = st.doneCh
                      /\ \E op \in ListenerOps :
                            /\ op # "return" => UserCode(t) /\ t.outer = << >>
                            /\ tab' = [tab EXCEPT !.t[c] =
                                  CASE st.blocked -> [t EXCEPT !.pc = "stuck"]
                                    [] op = "return" -> [t EXCEPT !.old = Tail(@)]
                                    [] op = "Dispatch" ->
                                         [t EXCEPT !.pc = "nested-lock",
                                                   !.nested = "Dispatch"]
                                    [] op = "Roundtrip" ->
                                         [t EXCEPT !.pc = "nested-roundtrip",
                                                   !.nested = "Roundtrip"]]
                      /\ UNCHANGED ret
                 ELSE /\ UNCHANGED << calls, globals, objects >>
                      /\ IF t.outer = << >>
                         THEN /\ tab' = [tab EXCEPT
                                           !.recvMu = RecvUnlock(@, c),
                                           !.t[c] = [IdleThread EXCEPT !.n = t.n + 1]]
                              /\ ret' = [op |-> "Dispatch", by |-> "thread",
                                         err |-> NilErr, ev |-> t.ev,
                                         written |-> FALSE]
                              /\ UNCHANGED doneCh
                         ELSE IF t.nested = "Roundtrip" /\ ~SelectDone(doneCh, t.cb)
                         THEN /\ tab' = [tab EXCEPT !.recvMu = RecvUnlock(@, c),
                                                    !.t[c].pc = "nested-lock"]
                              /\ UNCHANGED << ret, doneCh >>
                         ELSE /\ tab' = [tab EXCEPT
                                           !.recvMu = RecvUnlock(@, c),
                                           !.t[c] = Resumed(t, Head(t.outer))]
                              /\ ret' = [op |-> t.nested, by |-> "listener",
                                         err |-> NilErr, ev |-> t.ev,
                                         written |-> TRUE]
                              /\ doneCh' = IF t.nested = "Roundtrip"
                                           THEN [doneCh EXCEPT ![t.cb] = @ - 1]
                                           ELSE doneCh
    /\ UNCHANGED << nextID, listeners, lastError, tx, rx, rxMeta, lastFrame, hist,
                    registered, alloc, freed, conn, nestedFrame >>

\* Roundtrip called by a callback, up to its loop: allocateID, AddListener,
\* SendRequest(1, 0, callbackID), whose error is returned to the callback
NestedRoundtrip ==
    /\ Running
    /\ \E c \in Callers :
          LET t == tab.t[c]
          IN  /\ t.pc = "nested-roundtrip"
              /\ AllocOne
              /\ doneCh' = MapPut(doneCh, allocateID, 0)
              /\ listeners' = AddListener(listeners, allocateID, 0, HSync(allocateID))
              /\ registered' = Append(registered,
                                      Registration(allocateID, 0, HSync(allocateID)))
              /\ IF conn = "open"
                 THEN /\ Written(SendRequestFrame(1, 0, <<ArgU32(allocateID)>>))
                      /\ tab' = [tab EXCEPT !.t[c].pc = "nested-lock",
                                            !.t[c].cb = allocateID]
                      /\ UNCHANGED ret
                 ELSE /\ ret' = [op |-> "Roundtrip", by |-> "listener",
                                 err |-> [NilErr EXCEPT !.kind = "write"],
                                 ev |-> 0, written |-> FALSE]
                      /\ tab' = [tab EXCEPT !.t[c] = Resumed(t, FrameOf(t))]
                      /\ UNCHANGED << tx, lastFrame, hist >>
    /\ UNCHANGED << objects, globals, lastError, rx, rxMeta, calls, freed, conn,
                    nestedFrame >>

\* Display.Close() called by a thread of its own: d.conn.Close()
NestedClose ==
    /\ Running
    /\ conn = "open"
    /\ conn' = "closed"
    /\ UNCHANGED << nextID, objects, listeners, globals, lastError, doneCh, tx, rx,
                    rxMeta, ret, calls, lastFrame, hist, registered, alloc, freed,
                    tab, nestedFrame >>

\* the callbacks of the user: a listener of the events of object 4, opcode
\* 0, and a handler of interface "x"
NestedListen ==
    /\ AddListenerCall
    /\ ret'.objectID = 4 /\ ret'.opcode = 0 /\ ret'.tag = 1

NestedHandler ==
    /\ AddHandler
    /\ ret'.iface = IfaceX /\ ret'.tag = 1

\* the events the compositor sends: opcode 0 on object 4 without arguments,
\* and the globals of interface "x"
NestedEvent ==
    /\ PeerEvent
    /\ rxMeta'[Len(rxMeta')].opcode = 0
    /\ rxMeta'[Len(rxMeta')].body = << >>

NestedAnnounce ==
    /\ PeerAnnounce
    /\ rxMeta'[Len(rxMeta')].iface = IfaceX

NextNested ==
    \/ ConnectRegistry
    \/ getRegistry
    \/ ConnectRoundtrip
    \/ RoundtripDispatch
    \/ PeerSync
    \/ PeerGetRegistry
    \/ NestedAnnounce
    \/ NestedEvent
    \/ NestedListen
    \/ NestedHandler
    \/ NestedRead
    \/ NestedRun
    \/ NestedRoundtrip
    \/ NestedClose

SpecNested == Init /\ [][NextNested]_vars

(***************************************************************************)
(* The virtual pointer.  A method is an operator on the pointer p that     *)
(* gives the error it returns; the times and float64 values the methods    *)
(* take are not looked at by the code and are left out.                    *)
(***************************************************************************)
BTN_LEFT == 272
BTN_RIGHT == 273
BUTTON_STATE_RELEASED == 0
BUTTON_STATE_PRESSED == 1
AXIS_VERTICAL_SCROLL == 0
AXIS_HORIZONTAL_SCROLL == 1
AXIS_SOURCE_WHEEL == 0
AXIS_SOURCE_FINGER == 1
AXIS_SOURCE_CONTINUOUS == 2
AXIS_SOURCE_WHEEL_TILT == 3
ERROR_INVALID_AXIS == 0
ERROR_INVALID_AXIS_SOURCE == 1

PointerNotActive == VirtualPointerError(-1, "pointer not active")

Motion(p) == IF ~p.active THEN PointerNotActive ELSE Nil

MotionAbsolute(p, x, y, xExtent, yExtent) ==
    IF ~p.active THEN PointerNotActive
    ELSE IF x > xExtent \/ y > yExtent
    THEN VirtualPointerError(-1, "coordinates out of bounds")
    ELSE Nil

Button(p, button, state) ==
    IF ~p.active THEN PointerNotActive
    ELSE IF state # BUTTON_STATE_PRESSED /\ state # BUTTON_STATE_RELEASED
    THEN VirtualPointerError(-1, "invalid button state")
    ELSE Nil

ButtonPress(p, button) == Button(p, button, BUTTON_STATE_PRESSED)

ButtonRelease(p, button) == Button(p, button, BUTTON_STATE_RELEASED)

Axis(p, axis) ==
    IF ~p.active THEN PointerNotActive
    ELSE IF axis # AXIS_VERTICAL_SCROLL /\ axis # AXIS_HORIZONTAL_SCROLL
    THEN VirtualPointerError(ERROR_INVALID_AXIS, "invalid axis")
    ELSE Nil

AxisSource(p, axisSource) ==
    IF ~p.active THEN PointerNotActive
    ELSE IF axisSource \notin {AXIS_SOURCE_WHEEL, AXIS_SOURCE_FINGER,
                               AXIS_SOURCE_CONTINUOUS, AXIS_SOURCE_WHEEL_TILT}
    THEN VirtualPointerError(ERROR_INVALID_AXIS_SOURCE, "invalid axis source")
    ELSE Nil

AxisStop(p, axis) ==
    IF ~p.active THEN PointerNotActive
    ELSE IF axis # AXIS_VERTICAL_SCROLL /\ axis # AXIS_HORIZONTAL_SCROLL
    THEN VirtualPointerError(ERROR_INVALID_AXIS, "invalid axis")
    ELSE Nil

AxisDiscrete(p, axis) ==
    IF ~p.active THEN PointerNotActive
    ELSE IF axis # AXIS_VERTICAL_SCROLL /\ axis # AXIS_HORIZONTAL_SCROLL
    THEN VirtualPointerError(ERROR_INVALID_AXIS, "invalid axis")
    ELSE Nil

\* mutant of Frame: the frame request is sent whatever the pointer's state
FrameUnchecked(p) == Nil

Frame(p) == IF ~p.active THEN PointerNotActive ELSE Nil

\* virtualPointer.Destroy: the error, and the active flag after the call
DestroyPointer(p) ==
    IF ~p.active THEN [err |-> PointerNotActive, active |-> p.active]
    ELSE [err |-> Nil, active |-> FALSE]

\* the arguments of the calls
Coordinates == {0, 5}
Extents == {3}
Buttons == {BTN_LEFT, BTN_RIGHT}
ButtonStates == {BUTTON_STATE_RELEASED, BUTTON_STATE_PRESSED, 2}
Axes == {AXIS_VERTICAL_SCROLL, AXIS_HORIZONTAL_SCROLL, 2}
AxisSources == {AXIS_SOURCE_WHEEL, AXIS_SOURCE_WHEEL_TILT, 4}

devFrame == << pc, nextID, objects, listeners, registryVars, lastError, doneCh,
               rt, tx, rx, rxMeta, ret, calls, lastFrame, ops, peer, hist,
               registered, freed, allocVars, sendVars, conn, thr, sock, tab >>

\* a method of pointer i returns err and leaves the pointer's flag as active;
\* "after" tells whether the pointer had been destroyed before the call
PointerReturns(i, op, args, err, active) ==
    /\ dev.ptr[i].made
    /\ call' = [op |-> op, target |-> i, args |-> args, err |-> err,
                after |-> dev.ptr[i].destroyed]
    /\ dev' = [dev EXCEPT !.ptr[i].active = active,
                          !.ptr[i].destroyed = @ \/ (op = "Destroy" /\ err = Nil)]
    /\ UNCHANGED devFrame

CallMotion ==
    \E i \in Pointers :
       PointerReturns(i, "Motion", << >>, Motion(dev.ptr[i]), dev.ptr[i].active)

CallMotionAbsolute ==
    \E i \in Pointers, x \in Coordinates, y \in Coordinates, xExtent \in Extents,
       yExtent \in Extents :
       PointerReturns(i, "MotionAbsolute", <<x, y, xExtent, yExtent>>,
                      MotionAbsolute(dev.ptr[i], x, y, xExtent, yExtent),
                      dev.ptr[i].active)

CallButton ==
    \E i \in Pointers, button \in Buttons, state \in ButtonStates :
       PointerReturns(i, "Button", <<button, state>>,
                      Button(dev.ptr[i], button, state), dev.ptr[i].active)

CallButtonPress ==
    \E i \in Pointers, button \in Buttons :
       PointerReturns(i, "ButtonPress", <<button>>,
                      ButtonPress(dev.ptr[i], button), dev.ptr[i].active)

CallButtonRelease ==
    \E i \in Pointers, button \in Buttons :
       PointerReturns(i, "ButtonRelease", <<button>>,
                      ButtonRelease(dev.ptr[i], button), dev.ptr[i].active)

CallAxis ==
    \E i \in Pointers, axis \in Axes :
       PointerReturns(i, "Axis", <<axis>>, Axis(dev.ptr[i], axis),
                      dev.ptr[i].active)

CallAxisSource ==
    \E i \in Pointers, axisSource \in AxisSources :
       PointerReturns(i, "AxisSource", <<axisSource>>,
                      AxisSource(dev.ptr[i], axisSource), dev.ptr[i].active)

CallAxisStop ==
    \E i \in Pointers, axis \in Axes :
       PointerReturns(i, "AxisStop", <<axis>>, AxisStop(dev.ptr[i], axis),
                      dev.ptr[i].active)

CallAxisDiscrete ==
    \E i \in Pointers, axis \in Axes :
       PointerReturns(i, "AxisDiscrete", <<axis>>, AxisDiscrete(dev.ptr[i], axis),
                      dev.ptr[i].active)

CallFrame ==
    \E i \in Pointers :
       PointerReturns(i, "Frame", << >>, Frame(dev.ptr[i]), dev.ptr[i].active)

CallDestroy ==
    \E i \in Pointers :
       PointerReturns(i, "Destroy", << >>, DestroyPointer(dev.ptr[i]).err,
                      DestroyPointer(dev.ptr[i]).active)

(***************************************************************************)
(* The managers of the three packages.                                     *)
(***************************************************************************)
ManagerNotConnected(kind) ==
    CASE kind = "virtual_pointer" -> VirtualPointerError(-1, "manager not connected")
      [] kind = "virtual_keyboard" -> VirtualKeyboardError(-1, "manager not connected")
      [] OTHER -> PointerConstraintsError(-1, "manager not connected")

LIFETIME_ONESHOT == 1
LIFETIME_PERSISTENT == 2
Lifetimes == {LIFETIME_ONESHOT, LIFETIME_PERSISTENT, 3}

\* NewVirtualPointerManager, NewVirtualKeyboardManager,
\* NewPointerConstraintsManager: a connected manager
NewManager ==
    \E kind \in ManagerKinds :
       /\ ~dev.mgr[kind].made
       /\ dev' = [dev EXCEPT !.mgr[kind].made = TRUE, !.mgr[kind].connected = TRUE]
       /\ call' = [op |-> "NewManager", kind |-> kind, args |-> << >>, err |-> Nil,
                   object |-> 0, after |-> FALSE]
       /\ UNCHANGED devFrame

\* mutant of CreateChecked: the manager's flag is not looked at
CreateAlways(m, kind) == Nil

\* the check every create call starts with: if !m.connected
CreateChecked(m, kind) ==
    IF ~m.connected THEN ManagerNotConnected(kind) ELSE Nil

\* the lifetime check of LockPointer and ConfinePointer
LifetimeChecked(lifetime) ==
    IF lifetime # LIFETIME_ONESHOT /\ lifetime # LIFETIME_PERSISTENT
    THEN PointerConstraintsError(-1, "invalid lifetime value")
    ELSE Nil

\* a create call of the manager of kind returns err; with a nil error it
\* returns a new object: "object" is its number, 0 is the nil object
CreateReturns(kind, op, args, err) ==
    /\ dev.mgr[kind].made
    /\ call' = [op |-> op, kind |-> kind, args |-> args, err |-> err,
                object |-> IF err = Nil THEN dev.mgr[kind].objects + 1 ELSE 0,
                after |-> dev.mgr[kind].destroyed]
    /\ UNCHANGED devFrame

CreateVirtualPointerOf(op) ==
    LET err == CreateChecked(dev.mgr["virtual_pointer"], "virtual_pointer")
    IN  /\ CreateReturns("virtual_pointer", op, << >>, err)
        /\ IF err # Nil THEN UNCHANGED dev
           ELSE \E i \in Pointers :
                   /\ ~dev.ptr[i].made
                   /\ \A j \in Pointers : j < i => dev.ptr[j].made
                   /\ dev' = [dev EXCEPT
                                !.mgr["virtual_pointer"].objects = @ + 1,
                                !.ptr[i] = [made |-> TRUE, active |-> TRUE,
                                            destroyed |-> FALSE]]

CreateVirtualPointer == CreateVirtualPointerOf("CreateVirtualPointer")

CreateVirtualPointerWithOutput ==
    CreateVirtualPointerOf("CreateVirtualPointerWithOutput")

\* the objects a manager other than the virtual pointer manager creates
\* are counted
CreateCounted(kind, op, args, err) ==
    /\ dev.mgr[kind].objects < MaxPointers \/ err # Nil
    /\ CreateReturns(kind, op, args, err)
    /\ dev' = IF err = Nil THEN [dev EXCEPT !.mgr[kind].objects = @ + 1] ELSE dev

CreateVirtualKeyboard ==
    CreateCounted("virtual_keyboard", "CreateVirtualKeyboard", << >>,
                  CreateChecked(dev.mgr["virtual_keyboard"], "virtual_keyboard"))

\* the error of LockPointer and of ConfinePointer
ConstraintChecked(m, lifetime) ==
    IF CreateChecked(m, "pointer_constraints") # Nil
    THEN CreateChecked(m, "pointer_constraints")
    ELSE LifetimeChecked(lifetime)

LockPointer ==
    \E lifetime \in Lifetimes :
       CreateCounted("pointer_constraints", "LockPointer", <<lifetime>>,
                     ConstraintChecked(dev.mgr["pointer_constraints"], lifetime))

ConfinePointer ==
    \E lifetime \in Lifetimes :
       CreateCounted("pointer_constraints", "ConfinePointer", <<lifetime>>,
                     ConstraintChecked(dev.mgr["pointer_constraints"], lifetime))

\* Destroy of a manager: the error, and the connected flag after the call
DestroyManager(m, kind) ==
    IF ~m.connected THEN [err |-> ManagerNotConnected(kind), connected |-> m.connected]
    ELSE [err |-> Nil, connected |-> FALSE]

CallDestroyManager ==
    \E kind \in ManagerKinds :
       LET d == DestroyManager(dev.mgr[kind], kind)
       IN  /\ dev.mgr[kind].made
           /\ call' = [op |-> "Destroy", kind |-> kind, args |-> << >>,
                       err |-> d.err, object |-> 0,
                       after |-> dev.mgr[kind].destroyed]
           /\ dev' = [dev EXCEPT !.mgr[kind].connected = d.connected,
                                 !.mgr[kind].destroyed = @ \/ d.err = Nil]
           /\ UNCHANGED devFrame

NextManagers ==
    \/ NewManager
    \/ CreateVirtualPointer
    \/ CreateVirtualPointerWithOutput
    \/ CreateVirtualKeyboard
    \/ LockPointer
    \/ ConfinePointer
    \/ CallDestroyManager

SpecManagers == Init /\ [][NextManagers]_vars

(***************************************************************************)
(* Click, step by step; between its steps other calls on the pointer (a    *)
(* Destroy by another goroutine) may be made.                              *)
(***************************************************************************)
\* mutant of ClickNext: the errors of the steps are not looked at
ClickNextIgnoring(step, err) ==
    CASE step = "press" -> "release"
      [] step = "release" -> "frame"
      [] OTHER -> "return"

\* what Click does after a step returned err: the next step, or return
ClickNext(step, err) ==
    CASE step = "press" /\ err = Nil -> "release"
      [] step = "release" /\ err = Nil -> "frame"
      [] OTHER -> "return"

\* Click(pointer, button) is called
ClickCall ==
    /\ dev.click.pc = "idle"
    /\ \E i \in Pointers, button \in Buttons :
          /\ dev.ptr[i].made
          /\ dev' = [dev EXCEPT !.click = [pc |-> "press", p |-> i,
                                           button |-> button, issued |-> << >>]]
    /\ UNCHANGED call
    /\ UNCHANGED devFrame

\* the step of Click that is due is made: ButtonPress, ButtonRelease or Frame
ClickStep ==
    /\ dev.click.pc \in {"press", "release", "frame"}
    /\ LET c == dev.click
           p == dev.ptr[c.p]
           op == CASE c.pc = "press" -> "ButtonPress"
                   [] c.pc = "release" -> "ButtonRelease"
                   [] OTHER -> "Frame"
           err == CASE c.pc = "press" -> ButtonPress(p, c.button)
                    [] c.pc = "release" -> ButtonRelease(p, c.button)
                    [] OTHER -> Frame(p)
           issued == Append(c.issued, [op |-> op, button |-> c.button, err |-> err])
       IN  IF ClickNext(c.pc, err) = "return"
           THEN /\ call' = [op |-> "Click", target |-> c.p, args |-> <<c.button>>,
                            err |-> err, after |-> dev.ptr[c.p].destroyed,
                            issued |-> issued]
                /\ dev' = [dev EXCEPT !.click = NoDev.click]
           ELSE /\ dev' = [dev EXCEPT !.click.pc = ClickNext(c.pc, err),
                                      !.click.issued = issued]
                /\ UNCHANGED call
    /\ UNCHANGED devFrame

NextPointer ==
    \/ NewManager
    \/ CreateVirtualPointer
    \/ CreateVirtualPointerWithOutput
    \/ CallMotion
    \/ CallMotionAbsolute
    \/ CallButton
    \/ CallButtonPress
    \/ CallButtonRelease
    \/ CallAxis
    \/ CallAxisSource
    \/ CallAxisStop
    \/ CallAxisDiscrete
    \/ CallFrame
    \/ CallDestroy
    \/ ClickCall
    \/ ClickStep

SpecPointer == Init /\ [][NextPointer]_vars

(***************************************************************************)
(* The characters TypeString types.  charToKey is applied to one rune, a   *)
(* Unicode code point; the key constants are the Linux input event codes   *)
(* of the package.                                                         *)
(***************************************************************************)
KEY_1 == 2
KEY_2 == 3
KEY_3 == 4
KEY_4 == 5
KEY_5 == 6
KEY_6 == 7
KEY_7 == 8
KEY_8 == 9
KEY_9 == 10
KEY_0 == 11
KEY_MINUS == 12
KEY_EQUAL == 13
KEY_TAB == 15
KEY_Q == 16
KEY_W == 17
KEY_E == 18
KEY_R == 19
KEY_T == 20
KEY_Y == 21
KEY_U == 22
KEY_I == 23
KEY_O == 24
KEY_P == 25
KEY_LEFTBRACE == 26
KEY_RIGHTBRACE == 27
KEY_ENTER == 28
KEY_A == 30
KEY_S == 31
KEY_D == 32
KEY_F == 33
KEY_G == 34
KEY_H == 35
KEY_J == 36
KEY_K == 37
KEY_L == 38
KEY_SEMICOLON == 39
KEY_APOSTROPHE == 40
KEY_GRAVE == 41
KEY_BACKSLASH == 43
KEY_Z == 44
KEY_X == 45
KEY_C == 46
KEY_V == 47
KEY_B == 48
KEY_N == 49
KEY_M == 50
KEY_COMMA == 51
KEY_DOT == 52
KEY_SLASH == 53
KEY_SPACE == 57

\* the key constant named after each letter, 'a' first
LetterKeys ==
    << KEY_A, KEY_B, KEY_C, KEY_D, KEY_E, KEY_F, KEY_G, KEY_H, KEY_I, KEY_J,
       KEY_K, KEY_L, KEY_M, KEY_N, KEY_O, KEY_P, KEY_Q, KEY_R, KEY_S, KEY_T,
       KEY_U, KEY_V, KEY_W, KEY_X, KEY_Y, KEY_Z >>

DigitKeys ==
    << KEY_0, KEY_1, KEY_2, KEY_3, KEY_4, KEY_5, KEY_6, KEY_7, KEY_8, KEY_9 >>

\* (key, needsShift)
KeyOf(key, shift) == [key |-> key, shift |-> shift]

\* charToKey(char)
charToKey(char) ==
    CASE char = 32 -> KeyOf(KEY_SPACE, FALSE)            \* ' '
      [] char = 33 -> KeyOf(KEY_1, TRUE)                 \* '!'
      [] char = 64 -> KeyOf(KEY_2, TRUE)                 \* '@'
      [] char = 35 -> KeyOf(KEY_3, TRUE)                 \* '#'
      [] char = 36 -> KeyOf(KEY_4, TRUE)                 \* '$'
      [] char = 37 -> KeyOf(KEY_5, TRUE)                 \* '%'
      [] char = 94 -> KeyOf(KEY_6, TRUE)                 \* '^'
      [] char = 38 -> KeyOf(KEY_7, TRUE)                 \* '&'
      [] char = 42 -> KeyOf(KEY_8, TRUE)                 \* '*'
      [] char = 40 -> KeyOf(KEY_9, TRUE)                 \* '('
      [] char = 41 -> KeyOf(KEY_0, TRUE)                 \* ')'
      [] char = 45 -> KeyOf(KEY_MINUS, FALSE)            \* '-'
      [] char = 95 -> KeyOf(KEY_MINUS, TRUE)             \* '_'
      [] char = 61 -> KeyOf(KEY_EQUAL, FALSE)            \* '='
      [] char = 43 -> KeyOf(KEY_EQUAL, TRUE)             \* '+'
      [] char = 91 -> KeyOf(KEY_LEFTBRACE, FALSE)        \* '['
      [] char = 123 -> KeyOf(KEY_LEFTBRACE, TRUE)        \* '{'
      [] char = 93 -> KeyOf(KEY_RIGHTBRACE, FALSE)       \* ']'
      [] char = 125 -> KeyOf(KEY_RIGHTBRACE, TRUE)       \* '}'
      [] char = 92 -> KeyOf(KEY_BACKSLASH, FALSE)        \* '\\'
      [] char = 124 -> KeyOf(KEY_BACKSLASH, TRUE)        \* '|'
      [] char = 59 -> KeyOf(KEY_SEMICOLON, FALSE)        \* ';'
      [] char = 58 -> KeyOf(KEY_SEMICOLON, TRUE)         \* ':'
      [] char = 39 -> KeyOf(KEY_APOSTROPHE, FALSE)       \* '\''
      [] char = 34 -> KeyOf(KEY_APOSTROPHE, TRUE)        \* '"'
      [] char = 96 -> KeyOf(KEY_GRAVE, FALSE)            \* '`'
      [] char = 126 -> KeyOf(KEY_GRAVE, TRUE)            \* '~'
      [] char = 44 -> KeyOf(KEY_COMMA, FALSE)            \* ','
      [] char = 60 -> KeyOf(KEY_COMMA, TRUE)             \* '<'
      [] char = 46 -> KeyOf(KEY_DOT, FALSE)              \* '.'
      [] char = 62 -> KeyOf(KEY_DOT, TRUE)               \* '>'
      [] char = 47 -> KeyOf(KEY_SLASH, FALSE)            \* '/'
      [] char = 63 -> KeyOf(KEY_SLASH, TRUE)             \* '?'
      [] char = 9 -> KeyOf(KEY_TAB, FALSE)               \* '\t'
      [] char = 10 -> KeyOf(KEY_ENTER, FALSE)            \* '\n'
      [] char = 48 -> KeyOf(KEY_0, FALSE)                \* '0'
      [] char = 49 -> KeyOf(KEY_1, FALSE)                \* '1'
      [] char = 50 -> KeyOf(KEY_2, FALSE)                \* '2'
      [] char = 51 -> KeyOf(KEY_3, FALSE)                \* '3'
      [] char = 52 -> KeyOf(KEY_4, FALSE)                \* '4'
      [] char = 53 -> KeyOf(KEY_5, FALSE)                \* '5'
      [] char = 54 -> KeyOf(KEY_6, FALSE)                \* '6'
      [] char = 55 -> KeyOf(KEY_7, FALSE)                \* '7'
      [] char = 56 -> KeyOf(KEY_8, FALSE)                \* '8'
      [] char = 57 -> KeyOf(KEY_9, FALSE)                \* '9'
      [] char \in 97..122 -> KeyOf(KEY_A + (char - 97), FALSE)  \* 'a'..'z'
      [] char \in 65..90 -> KeyOf(KEY_A + (char - 65), TRUE)    \* 'A'..'Z'
      [] OTHER -> KeyOf(0, FALSE)

\* the runes charToKey is applied to: ASCII and the euro sign
Runes == 0..MaxRune \cup {8364}

InitKeys ==
    /\ pc = "call"
    /\ sock = [arg |-> << >>, display |-> << >>, runDir |-> << "/", "r" >>,
               path |-> Join(<< "/", "r" >>, DefaultSocket), consulted |-> TRUE,
               dials |-> 1]
    /\ \E char \in Runes :
          call = [op |-> "charToKey", state |-> "called", char |-> char,
                  ret |-> KeyOf(0, FALSE)]
    /\ tab = NoTab
    /\ InitDisplay

\* key, needsShift := charToKey(char)
CharToKeyCall ==
    /\ call.op = "charToKey"
    /\ call.state = "called"
    /\ call' = [call EXCEPT !.state = "returned", !.ret = charToKey(call.char)]
    /\ UNCHANGED << pc, nextID, objects, listeners, registryVars, lastError,
                    doneCh, rt, tx, rx, rxMeta, ret, calls, lastFrame, ops,
                    peer, hist, registered, freed, allocVars, sendVars, conn,
                    thr, sock, tab, dev >>

NextKeys == CharToKeyCall

SpecKeys == InitKeys /\ [][NextKeys]_vars

(***************************************************************************)
(* VirtualKeyboard.TypeString.  Each key request (k.keyboard.Key) succeeds *)
(* or fails as the connection decides; TypeString is followed request by   *)
(* request.                                                                *)
(***************************************************************************)
KEY_LEFTSHIFT == 42
KeyStateReleased == 0
KeyStatePressed == 1

\* key, ok := keyMap[char]
keyMap(char) ==
    CASE char \in 97..122 -> [ok |-> TRUE, key |-> LetterKeys[char - 96]]
      [] char \in 65..90 -> [ok |-> TRUE, key |-> LetterKeys[char - 64]]
      [] char \in 48..57 -> [ok |-> TRUE, key |-> DigitKeys[char - 47]]
      [] char = 32 -> [ok |-> TRUE, key |-> KEY_SPACE]
      [] char = 10 -> [ok |-> TRUE, key |-> KEY_ENTER]
      [] char = 9 -> [ok |-> TRUE, key |-> KEY_TAB]
      [] OTHER -> [ok |-> FALSE, key |-> 0]

\* needShift := char >= 'A' && char <= 'Z'
needShift(char) == char >= 65 /\ char <= 90

\* the characters of the texts typed: 'A', 'B', 'a', '1', ' ' and '!'
TextRunes == {65, 66, 97, 49, 32, 33}

RECURSIVE TextsOf(_)
TextsOf(n) ==
    IF n = 0 THEN { << >> }
    ELSE LET shorter == TextsOf(n - 1)
         IN  shorter \cup { Append(s, r) : s \in {x \in shorter : Len(x) = n - 1},
                                            r \in TextRunes }

Texts == TextsOf(MaxText)

\* the first character from position i on that keyMap has (Len(text) + 1:
\* none), the others are skipped
RECURSIVE SkipUnsupported(_, _)
SkipUnsupported(text, i) ==
    IF i > Len(text) \/ keyMap(text[i]).ok THEN i
    ELSE SkipUnsupported(text, i + 1)

\* TypeString is about to handle character i of the text
AtChar(c, i) ==
    LET j == SkipUnsupported(c.text, i)
    IN  [c EXCEPT !.i = j,
                  !.stage = IF j <= Len(c.text) /\ needShift(c.text[j])
                            THEN "PressKey(KEY_LEFTSHIFT)" ELSE "TypeKey press"]

\* the request TypeString makes next
KeyRequest(c) ==
    CASE c.stage = "PressKey(KEY_LEFTSHIFT)" ->
           [key |-> KEY_LEFTSHIFT, state |-> KeyStatePressed]
      [] c.stage = "TypeKey press" ->
           [key |-> keyMap(c.text[c.i]).key, state |-> KeyStatePressed]
      [] c.stage = "TypeKey release" ->
           [key |-> keyMap(c.text[c.i]).key, state |-> KeyStateReleased]
      [] c.stage = "ReleaseKey(KEY_LEFTSHIFT)" ->
           [key |-> KEY_LEFTSHIFT, state |-> KeyStateReleased]

\* TypeString after its next request has returned nil (ok) or an error
TypeStringStep(c, ok) ==
    LET r == KeyRequest(c)
        sent == [c EXCEPT !.sent = Append(@, [key |-> r.key, state |-> r.state,
                                              ok |-> ok])]
    IN  IF ~ok THEN [sent EXCEPT !.state = "returned", !.err = TRUE]
        ELSE CASE c.stage = "PressKey(KEY_LEFTSHIFT)" ->
                    [sent EXCEPT !.stage = "TypeKey press"]
               [] c.stage = "TypeKey press" ->
                    [sent EXCEPT !.stage = "TypeKey release"]
               [] c.stage = "TypeKey release" ->
                    IF needShift(c.text[c.i])
                    THEN [sent EXCEPT !.stage = "ReleaseKey(KEY_LEFTSHIFT)"]
                    ELSE AtChar(sent, c.i + 1)
               [] c.stage = "ReleaseKey(KEY_LEFTSHIFT)" ->
                    AtChar(sent, c.i + 1)

InitType ==
    /\ pc = "call"
    /\ sock = [arg |-> << >>, display |-> << >>, runDir |-> << "/", "r" >>,
               path |-> Join(<< "/", "r" >>, DefaultSocket), consulted |-> TRUE,
               dials |-> 1]
    /\ \E text \in Texts :
          call = AtChar([op |-> "TypeString", state |-> "called", text |-> text,
                         i |-> 1, stage |-> "TypeKey press", sent |-> << >>,
                         err |-> FALSE], 1)
    /\ tab = NoTab
    /\ InitDisplay

typeFrame ==
    UNCHANGED << pc, nextID, objects, listeners, registryVars, lastError,
                 doneCh, rt, tx, rx, rxMeta, ret, calls, lastFrame, ops,
                 peer, hist, registered, freed, allocVars, sendVars, conn,
                 thr, sock, tab, dev >>

\* one request of TypeString: PressKey, ReleaseKey or a half of TypeKey
TypeStringRequest ==
    /\ call.op = "TypeString"
    /\ call.state = "called"
    /\ call.i <= Len(call.text)
    /\ \E ok \in BOOLEAN : call' = TypeStringStep(call, ok)
    /\ typeFrame

\* the loop over the text has ended: return nil
TypeStringReturn ==
    /\ call.op = "TypeString"
    /\ call.state = "called"
    /\ call.i > Len(call.text)
    /\ call' = [call EXCEPT !.state = "returned"]
    /\ typeFrame

NextType ==
    \/ TypeStringRequest
    \/ TypeStringReturn

SpecType == InitType /\ [][NextType]_vars

(***************************************************************************)
(* The Client of the device packages and NewVirtualKeyboardManager, which  *)
(* makes one.  A step of the Wayland library (Connect, GetRegistry, Sync,  *)
(* RunTill, Bind) succeeds or fails as the connection decides; while       *)
(* RunTill runs, and later whenever the context is run, the compositor's   *)
(* global and global_remove events are handled.                            *)
(***************************************************************************)
SeatInterface == "wl_seat"
VirtualPointerManagerInterface == "zwlr_virtual_pointer_manager_v1"
VirtualKeyboardManagerInterface == "zwp_virtual_keyboard_manager_v1"
PointerConstraintsInterface == "zwp_pointer_constraints_v1"

ClientInterfaces ==
    {SeatInterface, VirtualPointerManagerInterface,
     VirtualKeyboardManagerInterface, PointerConstraintsInterface,
     "wl_compositor"}

\* the names the compositor gives its globals
ClientNames == 1..MaxClientNames

\* NewVirtualKeyboardManager has been called, nothing is connected yet
NoClient ==
    [op |-> "client", pc |-> "Connect", conn |-> "none", err |-> "nil",
     live |-> EmptyMap, globals |-> EmptyMap, seat |-> FALSE,
     pointerManager |-> 0, keyboardManager |-> 0, constraintsManager |-> 0,
     has |-> [asked |-> FALSE, pointer |-> FALSE, keyboard |-> FALSE,
              constraints |-> FALSE],
     n |-> 0]

\* Client.HandleRegistryGlobal(event); bound: whether the Bind of the seat
\* returned nil
HandleRegistryGlobal(c, event, bound) ==
    LET stored == [c EXCEPT !.globals = MapPut(@, event.Name, event.Interface)]
    IN  CASE event.Interface = SeatInterface ->
               [stored EXCEPT !.seat = @ \/ bound]
          [] event.Interface = VirtualPointerManagerInterface ->
               [stored EXCEPT !.pointerManager = event.Name]
          [] event.Interface = VirtualKeyboardManagerInterface ->
               [stored EXCEPT !.keyboardManager = event.Name]
          [] event.Interface = PointerConstraintsInterface ->
               [stored EXCEPT !.constraintsManager = event.Name]
          [] OTHER -> stored

\* Client.HandleRegistryGlobalRemove(event)
HandleRegistryGlobalRemove(c, event) ==
    [c EXCEPT !.globals = MapDelete(@, event.Name)]

HasVirtualPointer(c) == c.pointerManager # 0
HasVirtualKeyboard(c) == c.keyboardManager # 0
HasPointerConstraints(c) == c.constraintsManager # 0

\* Client.Close: c.context.Close()
ClientClose(c) == [c EXCEPT !.conn = "closed"]

\* return nil, fmt.Errorf(...)
ClientFailed(c, err) == [c EXCEPT !.pc = "failed", !.err = err]

\* client.NewClient, one library call at a time
NewClient(c, ok) ==
    CASE c.pc = "Connect" ->
           IF ok THEN [c EXCEPT !.pc = "GetRegistry", !.conn = "open"]
           ELSE ClientFailed(c, "failed to connect to Wayland")
      [] c.pc = "GetRegistry" ->
           IF ok THEN [c EXCEPT !.pc = "Sync"]
           ELSE ClientFailed(c, "failed to get registry")
      [] c.pc = "Sync" ->
           IF ok THEN [c EXCEPT !.pc = "RunTill"]
           ELSE ClientFailed(c, "failed to sync")
      [] c.pc = "RunTill" ->
           IF ok THEN [c EXCEPT !.pc = "HasVirtualKeyboard"]
           ELSE ClientFailed(c, "failed to wait for sync")

\* NewVirtualKeyboardManager once NewClient has returned the client
NewVirtualKeyboardManager(c, ok) ==
    CASE c.pc = "HasVirtualKeyboard" ->
           IF HasVirtualKeyboard(c) THEN [c EXCEPT !.pc = "Bind"]
           ELSE ClientFailed(ClientClose(c),
                             "zwp_virtual_keyboard_manager_v1 not available")
      [] c.pc = "Bind" ->
           IF ok THEN [c EXCEPT !.pc = "Sync again"]
           ELSE ClientFailed(ClientClose(c),
                             "failed to bind virtual keyboard manager")
      [] c.pc = "Sync again" ->
           IF ok THEN [c EXCEPT !.pc = "RunTill again"]
           ELSE ClientFailed(ClientClose(c), "failed to sync")
      [] c.pc = "RunTill again" ->
           IF ok THEN [c EXCEPT !.pc = "made"]
           ELSE ClientFailed(ClientClose(c), "failed to wait for sync")

InitClient ==
    /\ pc = "call"
    /\ sock = [arg |-> << >>, display |-> << >>, runDir |-> << "/", "r" >>,
               path |-> Join(<< "/", "r" >>, DefaultSocket), consulted |-> TRUE,
               dials |-> 1]
    /\ call = NoClient
    /\ tab = NoTab
    /\ InitDisplay

clientFrame ==
    UNCHANGED << pc, nextID, objects, listeners, registryVars, lastError,
                 doneCh, rt, tx, rx, rxMeta, ret, calls, lastFrame, ops,
                 peer, hist, registered, freed, allocVars, sendVars, conn,
                 thr, sock, tab, dev >>

NewClientStep ==
    /\ call.op = "client"
    /\ call.pc \in {"Connect", "GetRegistry", "Sync", "RunTill"}
    /\ \E ok \in BOOLEAN : call' = NewClient(call, ok)
    /\ clientFrame

NewVirtualKeyboardManagerStep ==
    /\ call.op = "client"
    /\ call.pc \in {"HasVirtualKeyboard", "Bind", "Sync again", "RunTill again"}
    /\ \E ok \in BOOLEAN : call' = NewVirtualKeyboardManager(call, ok)
    /\ clientFrame

\* the context dispatches events
ContextRuns ==
    /\ call.op = "client"
    /\ call.pc \in {"RunTill", "RunTill again", "made"}
    /\ call.n < MaxClientEvents

\* the event has been handled
ClientHandled(c) == [c EXCEPT !.n = @ + 1, !.has.asked = FALSE]

\* the compositor announces a global, the client handles the event
ClientGlobal ==
    /\ ContextRuns
    /\ \E name \in ClientNames \ DOMAIN call.live,
          iface \in ClientInterfaces, bound \in BOOLEAN :
          call' = [ClientHandled(HandleRegistryGlobal(
                       call, [Name |-> name, Interface |-> iface], bound))
                     EXCEPT !.live = MapPut(@, name, iface)]
    /\ clientFrame

\* the compositor removes a global, the client handles the event
ClientGlobalRemove ==
    /\ ContextRuns
    /\ \E name \in DOMAIN call.live :
          call' = [ClientHandled(HandleRegistryGlobalRemove(
                       call, [Name |-> name]))
                     EXCEPT !.live = MapDelete(@, name)]
    /\ clientFrame

\* HasVirtualPointer(), HasVirtualKeyboard() and HasPointerConstraints() are
\* called on the client of the manager
ClientHas ==
    /\ call.op = "client"
    /\ call.pc = "made"
    /\ ~call.has.asked
    /\ call' = [call EXCEPT !.has = [asked |-> TRUE,
                                     pointer |-> HasVirtualPointer(call),
                                     keyboard |-> HasVirtualKeyboard(call),
                                     constraints |-> HasPointerConstraints(call)]]
    /\ clientFrame

NextClient ==
    \/ NewClientStep
    \/ NewVirtualKeyboardManagerStep
    \/ ClientGlobal
    \/ ClientGlobalRemove
    \/ ClientHas

SpecClient == InitClient /\ [][NextClient]_vars

(***************************************************************************)
(* The event handlers of a pointer constraint.  A locked pointer has the   *)
(* handler lockedPointerEventHandler (locked, lifetime, isLocked) and the  *)
(* flag active; a confined pointer has confinedPointerEventHandler         *)
(* (confined, lifetime, isConfined).  The compositor sends the events in   *)
(* any order; Destroy clears the flag active.                              *)
(***************************************************************************)
ConstraintKinds == {"locked", "confined"}

\* &LockedPointer{active: true} with a new handler of the lifetime
NewConstraint(kind, lifetime) ==
    [op |-> "constraint", kind |-> kind, lifetime |-> lifetime,
     active |-> TRUE, on |-> FALSE, last |-> "none", unlocked |-> FALSE,
     deactivated |-> FALSE, reported |-> "none", n |-> 0]

\* handler.HandleLocked(e)
HandleLocked(c) == [c EXCEPT !.on = TRUE]

\* handler.HandleUnlocked(e) that leaves a oneshot constraint active
HandleUnlockedKeepsActive(c) == [c EXCEPT !.on = FALSE]

\* handler.HandleUnlocked(e)
HandleUnlocked(c) ==
    [c EXCEPT !.on = FALSE,
              !.active = IF c.lifetime = LIFETIME_ONESHOT THEN FALSE ELSE @]

\* handler.HandleConfined(e)
HandleConfined(c) == [c EXCEPT !.on = TRUE]

\* handler.HandleUnconfined(e)
HandleUnconfined(c) ==
    [c EXCEPT !.on = FALSE,
              !.active = IF c.lifetime = LIFETIME_ONESHOT THEN FALSE ELSE @]

\* lp.IsActive(), cp.IsActive()
IsActive(c) == c.active /\ c.on

InitConstraints ==
    /\ pc = "call"
    /\ sock = [arg |-> << >>, display |-> << >>, runDir |-> << "/", "r" >>,
               path |-> Join(<< "/", "r" >>, DefaultSocket), consulted |-> TRUE,
               dials |-> 1]
    /\ \E kind \in ConstraintKinds,
          lifetime \in {LIFETIME_ONESHOT, LIFETIME_PERSISTENT} :
          call = NewConstraint(kind, lifetime)
    /\ tab = NoTab
    /\ InitDisplay

constraintFrame ==
    UNCHANGED << pc, nextID, objects, listeners, registryVars, lastError,
                 doneCh, rt, tx, rx, rxMeta, ret, calls, lastFrame, ops,
                 peer, hist, registered, freed, allocVars, sendVars, conn,
                 thr, sock, tab, dev >>

\* the event of a handler has been handled
Handled(c, event) ==
    [c EXCEPT !.last = event, !.reported = "none", !.n = @ + 1]

ConstraintEvent(kind) ==
    /\ call.op = "constraint"
    /\ call.kind = kind
    /\ call.n < MaxConstraintEvents

LockedEvent ==
    /\ ConstraintEvent("locked")
    /\ call' = Handled(HandleLocked(call), "on")
    /\ constraintFrame

UnlockedEvent ==
    /\ ConstraintEvent("locked")
    /\ call' = [Handled(HandleUnlocked(call), "off") EXCEPT !.unlocked = TRUE]
    /\ constraintFrame

ConfinedEvent ==
    /\ ConstraintEvent("confined")
    /\ call' = Handled(HandleConfined(call), "on")
    /\ constraintFrame

UnconfinedEvent ==
    /\ ConstraintEvent("confined")
    /\ call' = [Handled(HandleUnconfined(call), "off")
                  EXCEPT !.unlocked = TRUE]
    /\ constraintFrame

\* lp.active = false
DeactivateConstraint ==
    /\ call.op = "constraint"
    /\ call.active
    /\ call.n < MaxConstraintEvents
    /\ call' = [call EXCEPT !.active = FALSE, !.deactivated = TRUE,
                            !.reported = "none", !.n = @ + 1]
    /\ constraintFrame

IsActiveCall ==
    /\ call.op = "constraint"
    /\ call.reported = "none"
    /\ call' = [call EXCEPT
                  !.reported = IF IsActive(call) THEN "true" ELSE "false"]
    /\ constraintFrame

NextConstraints ==
    \/ LockedEvent
    \/ UnlockedEvent
    \/ ConfinedEvent
    \/ UnconfinedEvent
    \/ DeactivateConstraint
    \/ IsActiveCall

SpecConstraints == InitConstraints /\ [][NextConstraints]_vars


(***************************************************************************)
(* Properties.                                                             *)
(***************************************************************************)
IsNil(err) == err.kind = "nil"

RECURSIVE Flatten(_)
Flatten(frames) ==
    IF frames = << >> THEN << >> ELSE Head(frames) \o Flatten(Tail(frames))

IsPrefix(a, b) == Len(a) <= Len(b) /\ a = SubSeq(b, 1, Len(a))

\* C1: a Roundtrip (Connect's or the user's) returns nil only after the done
\* event of the callback id it allocated and sent in its sync request was
\* dispatched, as the frame read last; the compositor, which handles the
\* requests in the order written, has by then handled every request written
\* before the call, and the sync.
RoundtripNilAfterDone ==
    (ret.op \in {"Roundtrip", "Connect"} /\ IsNil(ret.err)) =>
        /\ ret.cb \in hist.delivered
        /\ ret.event.type = "done" /\ ret.event.id = ret.cb
        /\ ret.cb \in DOMAIN hist.ackAt
        /\ hist.ackAt[ret.cb] = ret.to
        /\ hist.processed >= ret.mark + 1

\* C1 witness: a user's Roundtrip has returned nil after a Bind was written
\* before it (get_registry, the first sync and the bind: three frames)
RoundtripNilAfterBind ==
    /\ ret.op = "Roundtrip"
    /\ IsNil(ret.err)
    /\ ret.mark = 3

\* C2: the compositor has the registry before it acknowledges any sync
\* (get_registry is written before the sync of the initial Roundtrip), and
\* when Connect returns the Display the registry map holds, under its name
\* and with its interface, every global announced and not removed before the
\* acknowledgement of the initial sync, and no other.
ConnectPopulatesRegistry ==
    /\ (DOMAIN hist.ackAt # {}) => (peer.registry = regID /\ regID # 0)
    /\ (ret.op = "Connect" /\ IsNil(ret.err)) =>
          /\ ret.cb \in DOMAIN hist.acked
          /\ DOMAIN ret.globals = DOMAIN hist.acked[ret.cb]
          /\ \A n \in DOMAIN ret.globals :
                /\ ret.globals[n].Name = n
                /\ ret.globals[n].Interface = hist.acked[ret.cb][n].Interface

\* C2 witness: Connect has returned with both names in the registry
ConnectSawTwoGlobals ==
    /\ ret.op = "Connect"
    /\ IsNil(ret.err)
    /\ DOMAIN ret.globals = {5, 6}

\* C3 as stated: while fewer than 2^32 allocations were made, the first
\* returned 2, each later one returned more than the one before, 1 was never
\* returned, no id was returned twice (concurrent callers hold different
\* ids) nor after a delete_id event named it.
AllocatorRisesBelow2To32 ==
    (~alloc.over /\ alloc.n # 0) =>
        /\ alloc.first = 2
        /\ alloc.rising
        /\ ~Issued(1, 1)
        /\ ~alloc.again
        /\ ~alloc.freedAgain
        /\ \A c1, c2 \in Callers :
              (c1 # c2 /\ got[c1].calls > 0 /\ got[c2].calls > 0)
                 => got[c1].id # got[c2].id

\* C3 amended: the same for at most 2^32 - 2 allocations (the allocation
\* after that returns 0).
AllocatorRisesUpTo2To32Minus2 ==
    (~alloc.over /\ alloc.n # 0 /\ alloc.n # -1) =>
        /\ alloc.first = 2
        /\ alloc.rising
        /\ ~Issued(1, 1)
        /\ ~alloc.again
        /\ ~alloc.freedAgain
        /\ \A c1, c2 \in Callers :
              (c1 # c2 /\ got[c1].calls > 0 /\ got[c2].calls > 0)
                 => got[c1].id # got[c2].id

\* C3 witness: 2^32 - 2 allocations were made, by both callers, the last
\* returned 2^32 - 1, and a delete_id event has named an id
AllocatorAtLastId ==
    /\ ~alloc.over
    /\ alloc.n = -2
    /\ alloc.last = -1
    /\ freed # {}
    /\ \A c \in Callers : got[c].calls > 0

\* C4: when the frame a Dispatch read is an error event (object, code,
\* message), the call that returns (Dispatch, Roundtrip or Connect's
\* Roundtrip) returns an error with that object and that code, and the
\* last-error fields hold them.
ErrorEventReturned ==
    (ret.op \in {"Dispatch", "Roundtrip", "Connect"} /\ ret.event.type = "error") =>
        /\ ret.err.kind = "protocol"
        /\ ret.err.obj = ret.event.obj
        /\ ret.err.code = ret.event.code
        /\ lastError.set
        /\ lastError.obj = ret.event.obj
        /\ lastError.code = ret.event.code

\* C4 witness: a Roundtrip has returned on the error event of object 42, code 3
RoundtripReturnedError42 ==
    /\ ret.op = "Roundtrip"
    /\ ret.event.type = "error"
    /\ ret.event.obj = 42
    /\ ret.event.code = 3

\* C5: FindGlobal(i) reports found exactly when, by the announce and remove
\* events dispatched so far, some name whose latest announce carries i has
\* not been removed since; the Global it returns has interface i.
FindGlobalMatchesEvents ==
    (ret.op = "FindGlobal") =>
        /\ ret.found <=> (\E n \in DOMAIN ret.shown : ret.shown[n].Interface = ret.iface)
        /\ ret.found => ret.global.Interface = ret.iface

\* C5 witness: FindGlobal("x") reports not-found after an announce of "x"
\* and the remove of its name were dispatched (with the done event of
\* Connect, three events)
FindGlobalAfterRemove ==
    /\ ret.op = "FindGlobal"
    /\ ~ret.found
    /\ ret.iface = IfaceX
    /\ hist.evRead = 3
    /\ peer.events = 2
    /\ peer.live = EmptyMap

\* C6: after the dispatch of global-announce events the registry holds, under
\* each name, Global{Name, Interface, Version} as announced, the version too.
GlobalStoredAsAnnounced ==
    /\ DOMAIN globals = DOMAIN hist.shown
    /\ \A n \in DOMAIN globals :
          globals[n] = [Name |-> n, Interface |-> hist.shown[n].Interface,
                        Version |-> hist.shown[n].Version]

\* C7: the frame Bind writes is addressed to the registry with opcode 0, its
\* body is u32 name, the interface string, u32 version, u32 new_id and no
\* other word, and the id returned is the new_id.
BindFrameIsFourArguments ==
    (ret.op = "Bind") =>
        ret.frame = EventFrame(regID, 0,
                               PutUint32(ret.name) \o WireString(ret.iface)
                                 \o PutUint32(ret.version) \o PutUint32(ret.id))

\* C8: Bind returns without reading an event; a Roundtrip returns nil exactly
\* when no error event is among the events it read, the last of which is then
\* the acknowledgement of its sync: an error event the compositor sent before
\* the acknowledgement makes it return an error.
BindThenRoundtripReports ==
    /\ (ret.op = "Bind") => (ret.evAfter = ret.evBefore /\ IsNil(ret.err))
    /\ (ret.op = "Roundtrip") =>
          /\ IsNil(ret.err) <=> (\A e \in hist.errs : e <= ret.from \/ e > ret.to)
          /\ IsNil(ret.err) => (ret.cb \in DOMAIN hist.ackAt /\ ret.to = hist.ackAt[ret.cb])
          /\ ~IsNil(ret.err) => ret.to \in hist.errs

\* C8 witness: a Roundtrip called after a Bind has returned the error of the
\* rejected bind
RoundtripReportsRejectedBind ==
    /\ ret.op = "Roundtrip"
    /\ ~IsNil(ret.err)
    /\ ret.mark >= 3
    /\ ret.to \in hist.errs

\* C9: the bytes written to the socket are the frames of the SendRequest
\* calls, whole and in the order the calls took the lock; only the last may
\* be partly written, while its call is still writing.
WholeFramesOnTheWire ==
    /\ IsPrefix(tx, Flatten(order))
    /\ order # << >> =>
          Len(tx) >= Len(Flatten(SubSeq(order, 1, Len(order) - 1)))
    /\ (\A c \in Callers : snd[c].pc # "write") => tx = Flatten(order)

\* C9 witness: a second frame is partly written while the other caller has
\* nothing left to do but wait
SecondFramePartlyWritten ==
    /\ Len(order) = 2
    /\ \E c \in Callers :
          /\ snd[c].pc = "write"
          /\ Len(snd[c].left) > 0
          /\ Len(snd[c].left) < Len(snd[c].frame)

\* the listeners registered for (objectID, opcode) by the calls of log, in
\* the order of the calls
RECURSIVE RegisteredFor(_, _, _)
RegisteredFor(log, objectID, opcode) ==
    IF log = << >> THEN << >>
    ELSE LET rest == RegisteredFor(Tail(log), objectID, opcode)
         IN  IF Head(log).objectID = objectID /\ Head(log).opcode = opcode
             THEN <<Head(log).handler>> \o rest
             ELSE rest

\* the listeners the last Dispatch invoked, in order
RECURSIVE ListenersCalled(_)
ListenersCalled(cs) ==
    IF cs = << >> THEN << >>
    ELSE IF Head(cs).h.kind = "GlobalHandler" THEN ListenersCalled(Tail(cs))
         ELSE <<Head(cs).h>> \o ListenersCalled(Tail(cs))

\* C10: a Dispatch of a frame for an object other than the display invokes
\* the listeners registered for its (object id, opcode), each once, in the
\* order of their AddListener calls.
ListenersInRegistrationOrder ==
    (hist.evRead > 0 /\ hist.last.target # 1 /\ pc # "blocked") =>
        ListenersCalled(calls)
          = RegisteredFor(hist.last.registered, hist.last.target, hist.last.opcode)

\* C10 witness: one Dispatch has invoked the registry's listener and two
\* listeners of the user, registered for the same (object id, opcode)
ThreeListenersCalled ==
    /\ Len(ListenersCalled(calls)) = 3
    /\ ListenersCalled(calls)[2].kind = "user"
    /\ ListenersCalled(calls)[3].kind = "user"
    /\ ListenersCalled(calls)[2] # ListenersCalled(calls)[3]

\* C11: a Dispatch call that has read a frame (id # 1, opcode, body) returns
\* nil and has invoked the listeners registered for that (id, opcode) and no
\* other, each with the body of the frame, whether or not the id was ever
\* allocated or stored in the object table; when none is registered, the
\* listener table, the object table and the global map are as before.
DispatchInvokesRegisteredOnly ==
    (ret.op = "Dispatch" /\ ~ret.short /\ ret.event.target # 1) =>
        /\ ret.objectID = ret.event.target
        /\ ret.opcode = ret.event.opcode
        /\ IsNil(ret.err)
        /\ ListenersCalled(calls)
             = RegisteredFor(hist.last.registered, ret.event.target, ret.event.opcode)
        /\ \A i \in 1..Len(calls) :
              calls[i].h.kind # "GlobalHandler" => calls[i].body = ret.body
        /\ (ret.event.type = "event") => ret.body = ret.event.body
        /\ (RegisteredFor(hist.last.registered, ret.event.target, ret.event.opcode)
               = << >>) => ret.after = ret.before

\* C11 witness: a Dispatch has invoked two listeners with the four bytes of
\* an event on id 4, which was not allocated and is not in the object table
TwoListenersOnUnallocatedId ==
    /\ ret.op = "Dispatch"
    /\ ret.event.type = "event"
    /\ ret.event.target = 4
    /\ ret.body = << 7, 0, 0, 0 >>
    /\ Len(calls) = 2
    /\ nextID = 4
    /\ 4 \notin objects

\* C12: once a delete_id event naming X has been dispatched, X is not in the
\* object table and a frame for X invokes no listener registered before that
\* event: at most those registered after it.
DeleteIdDropsListeners ==
    /\ \A id \in DOMAIN hist.freedAt : id \notin objects
    /\ (ret.op = "Dispatch" /\ ret.event.target \in DOMAIN hist.freedAt) =>
          Len(ListenersCalled(calls))
            <= Len(RegisteredFor(hist.last.registered, ret.event.target,
                                 ret.event.opcode))
               - Len(RegisteredFor(SubSeq(hist.last.registered, 1,
                                          hist.freedAt[ret.event.target]),
                                   ret.event.target, ret.event.opcode))

\* C19: a Dispatch called when the stream has ended, or the socket was
\* closed, short of a whole header or of the body the header announces
\* returns an error and invokes no listener; no event counts as read.
ShortReadIsError ==
    (ret.op = "Dispatch" /\ ret.short) =>
        /\ ~IsNil(ret.err)
        /\ ret.after = ret.before
        /\ ret.event.type = "none"
        /\ (hist.last.target = 0) => calls = << >>

\* C19 witness: Dispatch has failed on a frame whose body was cut short,
\* with a listener registered for it
DispatchFailedOnCutBody ==
    /\ ret.op = "Dispatch"
    /\ ret.short
    /\ hist.cut = 10
    /\ ret.err.kind = "failed to read body"
    /\ RegisteredFor(registered, 4, 0) # << >>

\* C20: a frame whose header carries a length below 8 or not a multiple of
\* 4 makes Dispatch return an error, and no listener is invoked for it.
MalformedHeaderIsError ==
    (ret.op = "Dispatch" /\ ret.event.type = "malformed") =>
        /\ ~IsNil(ret.err)
        /\ (hist.last.target = ret.event.target) => calls = << >>

\* the GlobalHandler callbacks the last Dispatch invoked, in order
RECURSIVE HandlerCalls(_)
HandlerCalls(cs) ==
    IF cs = << >> THEN << >>
    ELSE IF Head(cs).h.kind = "GlobalHandler"
         THEN <<Head(cs)>> \o HandlerCalls(Tail(cs))
         ELSE HandlerCalls(Tail(cs))

\* C13: the Dispatch of a global-announce event of interface i invokes,
\* before it returns, the handler that AddHandler registered for i before
\* that Dispatch, once and with the announced name; it invokes no handler
\* when none was registered for i by then (an announce dispatched before
\* AddHandler is not replayed), and the Dispatch of any other event invokes
\* none.
AddHandlerInvokedOnAnnounce ==
    (hist.evRead > 0 /\ pc # "blocked") =>
        LET e == hist.last.event
            hs == hist.last.handlers
        IN  IF e.type = "global" /\ e.iface \in DOMAIN hs
            THEN /\ Len(HandlerCalls(calls)) = 1
                 /\ HandlerCalls(calls)[1].h.arg = hs[e.iface]
                 /\ HandlerCalls(calls)[1].body[1] = e.name
            ELSE HandlerCalls(calls) = << >>

\* C13 witness: an announce of "x" was dispatched before AddHandler("x", 1)
\* and invoked nothing (the registry holds its global), and the second
\* announce of "x", dispatched after it, has invoked handler 1 with name 6
SecondAnnounceInvokesHandler ==
    /\ hist.last.event.type = "global"
    /\ hist.last.event.iface = IfaceX
    /\ hist.last.event.name = 6
    /\ hist.last.handlers = (IfaceX :> 1)
    /\ 5 \in DOMAIN globals
    /\ Len(HandlerCalls(calls)) = 1
    /\ HandlerCalls(calls)[1].body[1] = 6

\* C14: a Roundtrip that is in progress when Close is called returns; what
\* it returns after the Close is an error, unless the acknowledgement of its
\* sync was dispatched.
CloseUnblocksRoundtrip ==
    /\ []((ret.op = "Roundtrip" /\ ret.conn = "closed") =>
             (~IsNil(ret.err) \/ ret.cb \in hist.delivered))
    /\ ((conn = "closed" /\ pc = "roundtrip") ~> (pc = "ready"))

\* C14 witness: a Roundtrip has returned an error after a Close that came
\* while it waited for a frame: the stream was empty and the compositor had
\* not acknowledged its sync
RoundtripFailedAfterClose ==
    /\ ret.op = "Roundtrip"
    /\ ret.conn = "closed"
    /\ ~IsNil(ret.err)
    /\ ret.event.type = "none"
    /\ ret.cb \notin DOMAIN hist.ackAt
    /\ hist.evRead = hist.evSent

AckedCallerStaysInRead ==
    \A c \in Callers :
       (thr[c].pc = "dispatch" /\ thr[c].cb \in hist.delivered /\ rx = << >>) =>
           /\ thr[c].by # c
           /\ doneCh[thr[c].cb] = 1
           /\ ~ENABLED (RaceDispatchOf(c) \/ RaceSelectOf(c))

\* C15 witness: the acknowledgement of caller 1's sync was read by caller
\* 2's Dispatch; caller 2 has returned, every request was answered, the
\* stream is empty, and caller 1 is in its read
AckReadByOtherCaller ==
    /\ thr[1].pc = "dispatch"
    /\ thr[1].cb \in hist.delivered
    /\ thr[1].by = 2
    /\ thr[2].pc = "idle"
    /\ thr[2].n = 1
    /\ tx = << >>
    /\ rx = << >>
    /\ hist.processed = hist.sent

\* the socket name by the claim: the argument, else WAYLAND_DISPLAY, else
\* "wayland-0"
NameAsked ==
    IF sock.arg # << >> THEN sock.arg
    ELSE IF sock.display # << >> THEN sock.display
    ELSE DefaultSocket

IsSuffix(a, b) == Len(a) <= Len(b) /\ a = SubSeq(b, Len(b) - Len(a) + 1, Len(b))

\* C17: once Connect has resolved its path: with a name that is not
\* absolute and XDG_RUNTIME_DIR unset or empty it has returned an error and
\* no Display and has dialed nothing; with an absolute name it has not read
\* XDG_RUNTIME_DIR and dials that name; otherwise it dials the name under
\* the runtime directory.
ConnectResolvesSocketName ==
    (pc # "start") =>
        /\ (Head(NameAsked) # "/" /\ sock.runDir = << >>) =>
              /\ pc = "failed"
              /\ ret.op = "Connect" /\ ~IsNil(ret.err) /\ ~ret.display
              /\ sock.dials = 0
        /\ (Head(NameAsked) = "/") =>
              /\ ~sock.consulted
              /\ sock.path = NameAsked
        /\ (Head(NameAsked) # "/" /\ sock.runDir # << >>) =>
              /\ Head(sock.path) = "/"
              /\ IsSuffix(<< "/" >> \o NameAsked, sock.path)
              /\ IsPrefix(SubSeq(sock.path, 1, Len(sock.path) - Len(NameAsked) - 1),
                          sock.runDir)
        /\ (sock.dials > 0) => sock.path # << >>

\* C17 witness: Connect("") with WAYLAND_DISPLAY=w2 and XDG_RUNTIME_DIR
\* empty has failed without a dial
ConnectFailedWithoutDial ==
    /\ pc = "failed"
    /\ sock.arg = << >>
    /\ sock.display = << "w", "2" >>
    /\ sock.runDir = << >>
    /\ sock.dials = 0
    /\ ~IsNil(ret.err)

\* the types of the type switch of marshalArg
SupportedTypes == {"uint32", "int32", "fixed", "string", "bytes", "object", "nil"}

HasUnsupported(args) == \E i \in DOMAIN args : args[i].type \notin SupportedTypes

\* C18: a SendRequest call with an argument of an unsupported type returns
\* an error and has written no byte; the call of the same caller after it,
\* with supported arguments, returns nil after it wrote one whole frame,
\* whose header carries its length; the lock is free when no call runs.
UnsupportedArgumentWritesNothing ==
    /\ \A c \in Callers :
          /\ HasUnsupported(snd[c].args) =>
                (snd[c].err /\ snd[c].wrote = 0 /\ snd[c].pc # "write")
          /\ (snd[c].afterErr /\ ~HasUnsupported(snd[c].args)
                 /\ snd[c].pc \in {"written", "idle"}) =>
                /\ ~snd[c].err
                /\ snd[c].wrote = Len(snd[c].frame)
                /\ Len(snd[c].frame) >= 8
                /\ HeaderSize(Slice(snd[c].frame, 0, 8)) = Len(snd[c].frame)
                /\ \E i \in 1..Len(order) : order[i] = snd[c].frame
    /\ (\A c \in Callers : snd[c].pc = "idle") => sendMu = 0
    /\ (\A c \in Callers : snd[c].pc # "write") => Len(tx) = Len(Flatten(order))

\* C18 witness: caller 1's call with a uint32 and then an unsupported value
\* returned an error, and its next call has written a whole frame
SendAfterMarshalError ==
    /\ snd[1].afterErr
    /\ ~HasUnsupported(snd[1].args)
    /\ snd[1].pc = "idle"
    /\ snd[1].n = 2
    /\ snd[1].wrote = Len(snd[1].frame)
    /\ snd[1].wrote > 0

\* the k-th 32-bit word of a frame, and the halves of a word
WordAt(data, k) == Uint32(Slice(data, 4 * k, 4 * k + 4))
Low16(w) == w % 65536
High16(w) == (w \div 65536) % 65536

\* a SendRequest call of the codec specification has returned
SendReturned == call.op = "SendRequest" /\ call.state = "returned"

\* C21: when SendRequest returns nil, word 0 of the frame it wrote is the
\* object id, the upper half of word 1 the opcode and the lower half the
\* number of bytes written, whatever the length of the encoding.
HeaderCarriesIdOpcodeLength ==
    (SendReturned /\ ~call.err) =>
        /\ call.after - call.before = Len(lastFrame)
        /\ SliceFrom(tx, call.before) = lastFrame
        /\ Len(lastFrame) >= 8
        /\ WordAt(lastFrame, 0) = call.objectID
        /\ High16(WordAt(lastFrame, 1)) = call.opcode
        /\ Low16(WordAt(lastFrame, 1)) = Len(lastFrame)

\* the arguments of the call are all of types marshalArg supports
AllSupported == \A i \in DOMAIN call.args : call.args[i].type \in SupportedTypes

\* C22: a SendRequest call whose arguments are all of supported types
\* returns nil, and the frame it wrote is at least 8 bytes long, with a
\* length that is a multiple of 4; a call that returns an error wrote
\* nothing.
FrameLengthMultipleOf4 ==
    SendReturned =>
        /\ AllSupported => ~call.err
        /\ call.err => call.after = call.before
        /\ ~call.err =>
              /\ call.after - call.before = Len(lastFrame)
              /\ Len(lastFrame) >= 8
              /\ Len(lastFrame) % 4 = 0
              /\ (Len(lastFrame) - 8) % 4 = 0

\* C22 witness: a string of 2 bytes and a byte array of 3 bytes were
\* written as a frame of 8 + 8 + 8 bytes
StringAndBytesFrameWritten ==
    /\ SendReturned /\ ~call.err
    /\ call.args = <<[type |-> "string", n |-> 2], [type |-> "bytes", n |-> 3]>>
    /\ Len(lastFrame) = 24
    /\ call.after = 24

\* the zero bytes needed after k bytes to reach a 4-byte boundary
PadTo4(k) == CHOOSE p \in 0..3 : (k + p) % 4 = 0

\* reading one string or byte array from the start of body: the length word,
\* then that many bytes, the last of which is the NUL of a string
ReadArg(body, type) ==
    LET k == Uint32(Slice(body, 0, 4))
        used == 4 + k + PadTo4(k)
    IN  [length |-> k,
         v |-> IF type = "string" THEN Slice(body, 4, 4 + k - 1)
               ELSE Slice(body, 4, 4 + k),
         nul |-> type = "string" => (k >= 1 /\ body[4 + k] = 0),
         used |-> used,
         padded |-> /\ used <= Len(body)
                    /\ \A i \in (4 + k + 1)..used : body[i] = 0]

\* reading the strings and byte arrays of types from body, one after another
RECURSIVE ReadArgs(_, _)
ReadArgs(body, types) ==
    IF types = << >> THEN [args |-> << >>, left |-> Len(body)]
    ELSE LET a == ReadArg(body, Head(types))
             rest == ReadArgs(SliceFrom(body, a.used), Tail(types))
         IN  [args |-> <<a>> \o rest.args, left |-> rest.left]

\* the arguments of the call are strings and byte arrays, at least one
StringsAndArrays ==
    /\ call.args # << >>
    /\ \A i \in DOMAIN call.args : call.args[i].type \in {"string", "bytes"}

\* C23: a string of n bytes is written as the word n + 1, the n bytes, a
\* NUL and zero bytes up to a multiple of 4; a byte array of n bytes as
\* the word n, the n bytes and zero bytes up to a multiple of 4; reading
\* the length word and then that many bytes (less the NUL of a string)
\* gives back the content, and each encoding is a multiple of 4 bytes long.
StringAndArrayRoundTrip ==
    (SendReturned /\ StringsAndArrays) =>
        /\ ~call.err
        /\ \E r \in {ReadArgs(SliceFrom(lastFrame, 8),
                               [i \in DOMAIN call.args |-> call.args[i].type])} :
              /\ r.left = 0
              /\ \A i \in DOMAIN call.args :
                    /\ r.args[i].length
                          = call.args[i].n
                              + (IF call.args[i].type = "string" THEN 1 ELSE 0)
                    /\ r.args[i].v = ContentOf(call.args[i].n)
                    /\ Len(r.args[i].v) = call.args[i].n
                    /\ r.args[i].nul
                    /\ r.args[i].padded
                    /\ r.args[i].used % 4 = 0
                    /\ r.args[i].used < 4 + r.args[i].length + 4

\* C23 witness: a byte array of 4 bytes (no padding) and then a string of
\* 3 bytes (NUL, no padding) were written and read back; so was the empty
\* string before
ArrayThenStringReadBack ==
    /\ SendReturned /\ ~call.err
    /\ call.args = <<[type |-> "bytes", n |-> 4], [type |-> "string", n |-> 3]>>
    /\ SliceFrom(lastFrame, 8)
          = <<4, 0, 0, 0>> \o ContentOf(4) \o <<4, 0, 0, 0>> \o ContentOf(3)
              \o <<0>>
    /\ ContentOf(3) = <<41, 82, 123>>

\* a NewFixed(v).Float64() of the Fixed specification has returned
FixedReturned == call.op = "NewFixed" /\ call.state = "returned"

\* a and b as multiples of 1 / 2^max(a.e, b.e)
Scaled(a, b) == a.m * Pow2(IF b.e > a.e THEN b.e - a.e ELSE 0)

\* C24: for v with |v * 256| < 2^31, NewFixed(v).Float64() differs from v
\* by less than 1/256 and is v itself when v is a multiple of 1/256 (and
\* only then); NewFixed(v) is v * 256 without its fraction, so it is never
\* further from zero than v * 256, for negative v too.
FixedWithin256th ==
    (FixedReturned /\ InFixedRange(call.v)) =>
        LET v == call.v
            back == call.back
            unit == Pow2(IF v.e > 8 THEN v.e ELSE 8) \div 256
            diff == Scaled(back, v) - Scaled(v, back)
            multiple == v.e <= 8 \/ v.m % Pow2(v.e - 8) = 0
        IN  /\ Abs(diff) < unit
            /\ multiple <=> diff = 0
            /\ v.m >= 0 => (diff <= 0 /\ call.f >= 0)
            /\ v.m <= 0 => (diff >= 0 /\ call.f <= 0)

\* C24 witness: v = -3/512, so v * 256 = -1.5: NewFixed gave -1 (not -2),
\* which Float64 turns into -1/256
NegativeTruncated ==
    /\ FixedReturned
    /\ call.v = [m |-> -3, e |-> 9]
    /\ call.f = -1
    /\ call.back = [m |-> -1, e |-> 8]

\* C25: no two threads are ever about to access the same table entry (the
\* listeners of one object id, the handler of one interface, the globals),
\* one of them writing, without a lock that both hold.
TablesProtected ==
    \A c \in Threads, d \in Threads :
       ~(Conflict(c, d) /\ Access(c).key = Access(d).key)

\* the methods of a virtual pointer
PointerOps ==
    {"Motion", "MotionAbsolute", "Button", "ButtonPress", "ButtonRelease", "Axis",
     "AxisSource", "AxisStop", "AxisDiscrete", "Frame", "Destroy"}

\* the last call was a method of a virtual pointer
PointerCalled == call.op \in PointerOps /\ "target" \in DOMAIN call

\* C26: a call of any method of a virtual pointer made after a Destroy of
\* that pointer returned nil returns an error, whatever its arguments, and
\* a pointer that was destroyed is never active again.
DestroyedPointerRefuses ==
    /\ (PointerCalled /\ call.after) => call.err # Nil
    /\ \A i \in Pointers : dev.ptr[i].destroyed => ~dev.ptr[i].active

\* C26 witness: Frame on the destroyed pointer 1 returned "pointer not
\* active" while pointer 2, created later, is active
FrameAfterDestroy ==
    /\ PointerCalled
    /\ call.op = "Frame"
    /\ call.target = 1
    /\ call.after
    /\ call.err = PointerNotActive
    /\ dev.ptr[2].active

\* the create calls of the managers
CreateOps ==
    {"CreateVirtualKeyboard", "CreateVirtualPointer",
     "CreateVirtualPointerWithOutput", "LockPointer", "ConfinePointer"}

\* the last call was a Destroy of a manager
ManagerDestroyed == call.op = "Destroy" /\ "kind" \in DOMAIN call

\* C27: Destroy of a manager returns nil the first time and an error every
\* later time; after it returned nil every create call of the manager
\* returns an error and the nil object, and a create call returns an
\* object only with a nil error.
DestroyedManagerRefuses ==
    /\ ManagerDestroyed => (call.after <=> call.err # Nil)
    /\ call.op \in CreateOps =>
          /\ call.after => (call.err # Nil /\ call.object = 0)
          /\ call.err # Nil <=> call.object = 0
    /\ \A kind \in ManagerKinds : dev.mgr[kind].destroyed => ~dev.mgr[kind].connected

\* C27 witness: LockPointer with a valid lifetime on the destroyed pointer
\* constraints manager, which had created an object before
LockPointerAfterDestroy ==
    /\ call.op = "LockPointer"
    /\ call.args = <<LIFETIME_ONESHOT>>
    /\ call.after
    /\ call.object = 0
    /\ call.err = PointerConstraintsError(-1, "manager not connected")
    /\ dev.mgr["pointer_constraints"].objects = 1

\* the steps of Click, in order
ClickSteps == <<"ButtonPress", "ButtonRelease", "Frame">>

\* the calls in issued are the first steps of Click, in order, with the
\* button of the call, and all but the last returned nil
ClickOrdered(issued, button) ==
    /\ Len(issued) <= Len(ClickSteps)
    /\ \A k \in 1..Len(issued) :
          /\ issued[k].op = ClickSteps[k]
          /\ issued[k].button = button
          /\ k < Len(issued) => issued[k].err = Nil

\* C30: Click issues ButtonPress, ButtonRelease and Frame in this order,
\* each at most once; it issues a step only when the steps before it
\* returned nil, returns the error of the first step that failed, and
\* returns nil only when the three steps were issued and returned nil.
ClickStopsAtFirstFailure ==
    /\ dev.click.pc # "idle" =>
          /\ ClickOrdered(dev.click.issued, dev.click.button)
          /\ \A k \in 1..Len(dev.click.issued) : dev.click.issued[k].err = Nil
          /\ dev.click.pc = <<"press", "release", "frame">>[Len(dev.click.issued) + 1]
    /\ call.op = "Click" =>
          /\ call.issued # << >>
          /\ ClickOrdered(call.issued, call.args[1])
          /\ call.err = call.issued[Len(call.issued)].err
          /\ call.err # Nil \/ Len(call.issued) = Len(ClickSteps)

\* C30 witness: the pointer was destroyed after the ButtonPress of a Click;
\* the Click returned the error of its ButtonRelease and issued no Frame
ClickFailedAtRelease ==
    /\ call.op = "Click"
    /\ Len(call.issued) = 2
    /\ call.issued[1].err = Nil
    /\ call.err = PointerNotActive

\* a charToKey(char) of the keys specification has returned
CharToKeyReturned == call.op = "charToKey" /\ call.state = "returned"

\* C28: charToKey gives a lowercase letter the key constant of that letter
\* without shift and an uppercase letter the same constant with shift;
\* digits get KEY_0..KEY_9 without shift, '!' KEY_1 with shift, space
\* KEY_SPACE, and the euro sign, which is not supported, (0, false).
CharToKeyLetters ==
    CharToKeyReturned =>
        LET char == call.char
        IN  /\ char \in 97..122 => call.ret = KeyOf(LetterKeys[char - 96], FALSE)
            /\ char \in 65..90 => call.ret = KeyOf(LetterKeys[char - 64], TRUE)
            /\ char \in 48..57 => call.ret = KeyOf(DigitKeys[char - 47], FALSE)
            /\ char = 33 => call.ret = KeyOf(KEY_1, TRUE)
            /\ char = 32 => call.ret = KeyOf(KEY_SPACE, FALSE)
            /\ char = 8364 => call.ret = KeyOf(0, FALSE)

\* C29: after the locked (confined) event the handler is in the locked
\* (confined) state and after the unlocked (unconfined) event it is not; a
\* oneshot constraint is inactive once it has been unlocked, a persistent
\* one is not made inactive by its events; IsActive reports true exactly
\* when the constraint is active and its handler is in the locked (confined)
\* state, so a oneshot constraint never reports true after its first unlock.
ConstraintFollowsEvents ==
    call.op = "constraint" =>
        /\ call.last = "on" => call.on
        /\ call.last = "off" => ~call.on
        /\ (call.lifetime = LIFETIME_ONESHOT /\ call.unlocked) => ~call.active
        /\ (call.lifetime = LIFETIME_PERSISTENT /\ ~call.deactivated)
              => call.active
        /\ call.reported = "true" <=>
              (call.reported # "none" /\ call.active /\ call.on)
        /\ (call.lifetime = LIFETIME_ONESHOT /\ call.unlocked)
              => call.reported # "true"

\* C29 witness: a oneshot locked pointer was unlocked and then got the
\* locked event again: its handler is in the locked state and IsActive
\* reports false
OneshotLockedAgainInactive ==
    /\ call.op = "constraint"
    /\ call.kind = "locked"
    /\ call.lifetime = LIFETIME_ONESHOT
    /\ call.unlocked
    /\ call.last = "on"
    /\ call.on
    /\ call.reported = "false"

\* C31: once a Roundtrip has returned nil, no listener is registered for
\* its callback id any more and the id is not in the object table.
RoundtripDiscardsSync ==
    (ret.op \in {"Roundtrip", "Connect"} /\ IsNil(ret.err)) =>
        /\ ListenersOf(listeners, ret.cb, 0) = << >>
        /\ ret.cb \notin objects

\* the requests TypeString makes for one character when none fails
KeysOfChar(char) ==
    LET key == keyMap(char).key
        typed == << [key |-> key, state |-> KeyStatePressed],
                    [key |-> key, state |-> KeyStateReleased] >>
    IN  IF ~keyMap(char).ok THEN << >>
        ELSE IF needShift(char)
        THEN << [key |-> KEY_LEFTSHIFT, state |-> KeyStatePressed] >> \o typed
               \o << [key |-> KEY_LEFTSHIFT, state |-> KeyStateReleased] >>
        ELSE typed

RECURSIVE KeysOfText(_)
KeysOfText(text) ==
    IF text = << >> THEN << >>
    ELSE KeysOfChar(Head(text)) \o KeysOfText(Tail(text))

\* the requests made, without their results
Requests(sent) == [j \in 1..Len(sent) |-> [key |-> sent[j].key,
                                           state |-> sent[j].state]]

\* C32: when TypeString has returned, the requests it made are those of its
\* text in order (LEFTSHIFT press, key press, key release, LEFTSHIFT release
\* for an uppercase letter, key press and key release for any other
\* supported character), all of them when it returned nil, and every
\* LEFTSHIFT press that was sent is followed by a LEFTSHIFT release request.
TypeStringReleasesShift ==
    (call.op = "TypeString" /\ call.state = "returned") =>
        /\ IsPrefix(Requests(call.sent), KeysOfText(call.text))
        /\ ~call.err => Requests(call.sent) = KeysOfText(call.text)
        /\ \A j \in 1..Len(call.sent) :
              (call.sent[j].key = KEY_LEFTSHIFT
                 /\ call.sent[j].state = KeyStatePressed /\ call.sent[j].ok)
              => \E k \in (j + 1)..Len(call.sent) :
                    /\ call.sent[k].key = KEY_LEFTSHIFT
                    /\ call.sent[k].state = KeyStateReleased

\* the compositor advertises a global of the interface
Advertised(iface) ==
    \E name \in DOMAIN call.live : call.live[name] = iface

\* C33: HasVirtualPointer, HasVirtualKeyboard and HasPointerConstraints
\* return true exactly when a global of the manager's interface has been
\* announced and not removed since.
HasFollowsGlobals ==
    (call.op = "client" /\ call.has.asked) =>
        /\ call.has.pointer <=> Advertised(VirtualPointerManagerInterface)
        /\ call.has.keyboard <=> Advertised(VirtualKeyboardManagerInterface)
        /\ call.has.constraints <=> Advertised(PointerConstraintsInterface)

\* C34: when NewVirtualKeyboardManager has returned an error, no connection
\* it opened is still open.
FailedManagerClosesConnection ==
    (call.op = "client" /\ call.pc = "failed") => call.conn # "open"

\* the handler the last AddHandler call for the interface gave (0: none)
RECURSIVE LatestHandler(_, _)
LatestHandler(added, iface) ==
    IF added = << >> THEN 0
    ELSE IF added[Len(added)].iface = iface THEN added[Len(added)].tag
    ELSE LatestHandler(SubSeq(added, 1, Len(added) - 1), iface)

\* C38: the registry holds, for each interface, the handler of the most
\* recent AddHandler call for that interface and no other (a later call for
\* the same interface replaces the handler, calls for other interfaces do
\* not touch it), and the Dispatch of an announce of the interface invokes
\* that handler alone.
LaterHandlerReplaces ==
    /\ \A iface \in Ifaces :
          IF LatestHandler(hist.added, iface) = 0
          THEN iface \notin DOMAIN handlers
          ELSE /\ iface \in DOMAIN handlers
               /\ handlers[iface] = LatestHandler(hist.added, iface)
    /\ (ret.op = "Dispatch" /\ ~ret.failed /\ ret.event.type = "global") =>
          LET latest == LatestHandler(hist.added, ret.event.iface)
          IN  IF latest = 0 THEN HandlerCalls(calls) = << >>
              ELSE /\ Len(HandlerCalls(calls)) = 1
                   /\ HandlerCalls(calls)[1].h.arg = latest

\* C38 witness: AddHandler("x", 1), then AddHandler("x", 2); the Dispatch of
\* an announce of "x" has invoked handler 2 and not handler 1
SecondHandlerInvoked ==
    /\ hist.added = << [iface |-> IfaceX, tag |-> 1], [iface |-> IfaceX, tag |-> 2] >>
    /\ ret.op = "Dispatch"
    /\ ret.event.type = "global"
    /\ ret.event.iface = IfaceX
    /\ Len(HandlerCalls(calls)) = 1
    /\ HandlerCalls(calls)[1].h.arg = 2

\* C39: a protocol error is not sticky.  A call fails only on the frame it
\* reads itself: Bind (SendRequest) returns nil whatever lastError holds, and
\* Dispatch and Roundtrip return an error only when the frame just read is an
\* error event.  An error event whose body is shorter than 12 bytes makes the
\* call return "invalid error event".  lastError changes only when a whole
\* error event is dispatched, to the fields of that event, so it is never
\* cleared and a short error event leaves it as it was.
ErrorNotSticky ==
    /\ [](ret.op = "Bind" => IsNil(ret.err))
    /\ [](ret.op \in {"Dispatch", "Roundtrip", "Connect"} =>
            /\ ~IsNil(ret.err) => ret.event.type \in {"error", "short error"}
            /\ ret.event.type = "short error" => ret.err.kind = "invalid error event"
            /\ ret.event.type = "error" => ret.err.kind = "protocol")
    /\ [][lastError' # lastError =>
            /\ hist'.evRead = hist.evRead + 1
            /\ hist'.last.event.type = "error"
            /\ lastError' = [set |-> TRUE, obj |-> hist'.last.event.obj,
                             code |-> hist'.last.event.code,
                             message |-> hist'.last.event.message]]_vars

\* a Roundtrip begun after a protocol error was returned has returned nil,
\* the error still recorded
RoundtripNilAfterError ==
    /\ lastError.set
    /\ ret.op = "Roundtrip"
    /\ IsNil(ret.err)
    /\ \E n \in hist.errs : n <= ret.from

\* C35, as stated: a global handler runs after the announced global has been
\* stored and the registry lock released.  In the handler r.mu.RLock() and
\* d.sendMu.Lock() find their lock free, GetGlobals holds the global just
\* announced, and FindGlobal of the announced interface returns the global
\* just announced.
HandlerFindsAnnounced ==
    /\ tab.t[LoopThread].pc = "cb-rlock" => tab.mu.w = 0
    /\ tab.t[LoopThread].pc = "cb-bind" => MutexFree(sendMu)
    /\ (ret.op = "GetGlobals" /\ ret.by = "handler") =>
          /\ ret.announced.Name \in DOMAIN ret.globals
          /\ ret.globals[ret.announced.Name] = ret.announced
    /\ (ret.op = "FindGlobal" /\ ret.by = "handler") =>
          /\ ret.found
          /\ ret.global = ret.announced

\* C35, amended: as above, but FindGlobal of the announced interface returns
\* a stored global of that interface, which is the one just announced when
\* no other stored global has the interface.
HandlerSeesAnnounced ==
    /\ tab.t[LoopThread].pc = "cb-rlock" => tab.mu.w = 0
    /\ tab.t[LoopThread].pc = "cb-bind" => MutexFree(sendMu)
    /\ (ret.op = "GetGlobals" /\ ret.by = "handler") =>
          /\ ret.announced.Name \in DOMAIN ret.globals
          /\ ret.globals[ret.announced.Name] = ret.announced
    /\ (ret.op = "FindGlobal" /\ ret.by = "handler") =>
          /\ ret.found
          /\ ret.global.Interface = ret.announced.Interface
          /\ \E name \in DOMAIN ret.globals : ret.globals[name] = ret.global
          /\ ret.globals[ret.announced.Name] = ret.announced
          /\ (\A name \in DOMAIN ret.globals :
                 ret.globals[name].Interface = ret.announced.Interface
                    => name = ret.announced.Name)
                => ret.global = ret.announced

\* FindGlobal called in the handler of the second global of an interface has
\* returned the global announced first
HandlerFoundOlderGlobal ==
    /\ ret.op = "FindGlobal"
    /\ ret.by = "handler"
    /\ ret.found
    /\ ret.global.Name # ret.announced.Name

\* the frames are delivered one at a time and in wire order: a thread that
\* has read a frame and not returned holds recvMu, so it is the only one,
\* and the callbacks the threads have run (the entries of calls that carry
\* the number of their event) ran in the order of their events
DeliveredInWireOrder ==
    /\ \A c \in Callers : tab.t[c].pc # "idle" => tab.recvMu = c
    /\ \A i \in 1..Len(calls), j \in 1..Len(calls) :
          (i < j /\ "ev" \in DOMAIN calls[i] /\ "ev" \in DOMAIN calls[j])
             => calls[i].ev <= calls[j].ev

\* a callback that has called Dispatch or Roundtrip is still in that call
InNestedCall ==
    \A c \in Callers :
       tab.t[c].nested # "none" =>
          /\ tab.t[c].pc \in {"nested-roundtrip", "nested-lock"}
          /\ tab.recvMu = c

\* C36, as stated: Dispatch holds recvMu from the read of the header until
\* the listeners have returned, the frames are delivered one at a time in
\* wire order whichever thread calls Dispatch, and a Dispatch or Roundtrip
\* called by a listener or a global handler never returns.
NestedCallNeverReturns ==
    /\ DeliveredInWireOrder
    /\ InNestedCall
    /\ ret.op \in {"Dispatch", "Roundtrip"} => ret.by # "listener"

\* C36, amended: as above, but a Roundtrip called by a callback returns when
\* its SendRequest fails, with that error and before any Dispatch; it never
\* returns once the sync request is written, and a Dispatch called by a
\* callback never returns.
NestedCallReturnsOnlyWriteError ==
    /\ DeliveredInWireOrder
    /\ InNestedCall
    /\ (ret.op \in {"Dispatch", "Roundtrip"} /\ ret.by = "listener") =>
          /\ ret.op = "Roundtrip"
          /\ ret.err.kind = "write"
          /\ ~ret.written

\* a callback is stuck in the Dispatch it called, on the lock its own thread
\* holds, while the next frame waits and the other thread cannot read it
NestedDispatchStuck ==
    \E c \in Callers :
       /\ tab.t[c].pc = "nested-lock"
       /\ tab.t[c].nested = "Dispatch"
       /\ tab.recvMu = c
       /\ FrameReady
       /\ \E d \in Callers \ {c} : tab.t[d].pc = "idle" /\ tab.t[d].n < MaxShared

\* C37: the frames that carry the ids allocated by concurrent Bind and
\* Roundtrip calls are written in the order of the allocations: a frame with
\* new id n is never written after a frame with a new id above n.
NewIdsInAllocationOrder ==
    \A i \in 1..Len(order), j \in 1..Len(order) :
       i < j => NewIdOf(order[i]) < NewIdOf(order[j])


=============================================================================
